---------------------------- MODULE Spec2Model ----------------------------
(***************************************************************************)
(* Model of the RBAC decision path (apps.authorization) and of the audit   *)
(* write path (apps.audit) of the backend.                                 *)
(*                                                                         *)
(* The relational store is modelled table by table: Permission rows,       *)
(* Role rows with their many-to-many permission set, User rows, AuditLog   *)
(* rows.  Service functions are operators over the store; every call a     *)
(* client can make is an action that records what the caller observed in   *)
(* `response`; calls are made one at a time and Return consumes the        *)
(* response.                                                               *)
(*                                                                         *)
(*   SpecAuthz    the decision services called directly                    *)
(*   SpecGates    the three permission-class factories                     *)
(*   SpecNoCache  gated HTTP requests between changes of roles             *)
(*   SpecAudit    the audit write service, also inside an atomic block     *)
(***************************************************************************)
EXTENDS Integers, Sequences, FiniteSets, TLC

(* ----------------------------- bounds ---------------------------------- *)
MaxUsers == 1
MaxRoles == 2
MaxCodes == 2
MaxCalls == 2

(* --------------------------- value domains ------------------------------ *)
\* role_id IS NULL (User.role is null=True)
NoRole == 0

\* Permission codes that the admin form can store (CharField, blank=False).
PermCodes == {"Conciliacion.Run", "conciliacion.run"}

\* Codes a caller may ask about: the stored ones, one no row has, and "".
CheckCodes == PermCodes \cup {"reportes.export", ""}

\* Codes the views build their gates with.
GateCodes == PermCodes

\* Permission.Meta.ordering = ["code"]
OrderedCodes == <<"", "Conciliacion.Run", "conciliacion.run", "reportes.export">>

\* str.lower() on the codes of the model (used by case-insensitive lookups).
Lower(code) == IF code = "Conciliacion.Run" THEN "conciliacion.run" ELSE code

UserIds == 1..MaxUsers
RoleIds == 1..MaxRoles

\* The description typed in the backoffice form of a Permission.
AdminDescription == "Permiso cargado desde el backoffice"

\* The names typed in the backoffice form of the n-th Role (Role.name is
\* unique).
AdminRoleNames == <<"Analista", "Auditor", "Operador", "Gerente">>

\* The password a user is created with.
InitialPassword == "initial"

VARIABLES
    permissions,       \* Permission table: the set of stored codes
    descriptions,      \* Permission table: code -> description
    role_permissions,  \* Role table: role pk -> codes of role.permissions
    role_names,        \* Role table: role pk -> name
    users,             \* User table: user pk -> row
    sequences,         \* the last pk the database gave to a Role and to a User
    response,          \* what the last caller observed
    history,           \* the HTTP decision observed before `response`
    audit_log,         \* AuditLog table as the connection sees it
    connection,        \* the connection's transaction state
    savepoint,         \* the tables as of the start of the open transaction
    caller,            \* progress of the business operation in the atomic block
    calls,             \* number of audit service calls made so far
    tokens,            \* the access tokens issued so far
    requests,          \* requests in progress: slot -> what the worker holds
    completed,         \* user pk -> completed deactivate_user/reset_password calls
    deactivated,       \* users deactivate_user was completed for, not reactivated since
    profiles           \* user pk -> email, first_name, last_name (once edited)

authz_vars == <<permissions, descriptions, role_permissions, role_names,
                users, sequences>>
audit_vars == <<audit_log, connection, savepoint, caller, calls>>
session_vars == <<tokens, requests, completed, deactivated, profiles>>
vars == <<permissions, descriptions, role_permissions, role_names, users,
          sequences, response, history,
          audit_log, connection, savepoint, caller, calls,
          tokens, requests, completed, deactivated, profiles>>

Idle == [op |-> "idle"]

\* The latest HTTP decision stays observable after the response is consumed.
Shift == IF response.op = "request" THEN response ELSE history

(* ------------------------------ principals ------------------------------ *)
\* The objects a caller can hand to the services as `user`.
NoneUser ==
    [kind |-> "None", pk |-> 0, is_authenticated |-> FALSE,
     is_active |-> FALSE, role_id |-> NoRole]

\* django.contrib.auth AnonymousUser: no role attribute, never active.
AnonymousUser ==
    [kind |-> "AnonymousUser", pk |-> 0, is_authenticated |-> FALSE,
     is_active |-> FALSE, role_id |-> NoRole]

\* A User instance read from the table (authenticated = TRUE), or the
\* duck-typed stand-in of the unit tests (make_user(is_authenticated=False)).
LoadUser(pk, authenticated) ==
    [kind |-> "User", pk |-> pk, is_authenticated |-> authenticated,
     is_active |-> users[pk].is_active, role_id |-> users[pk].role_id]

Principals ==
    {NoneUser, AnonymousUser}
        \cup {LoadUser(pk, a) : pk \in DOMAIN users, a \in BOOLEAN}

(* ------------------------ authorization.services ------------------------ *)
\* A lookup with code__iexact: letter case is ignored.
filter_code_iexact(role_id, permission_code) ==
    \E c \in role_permissions[role_id] : Lower(c) = Lower(permission_code)

\* role.permissions.filter(code=permission_code).exists()
filter_code_exists(role_id, permission_code) ==
    \E c \in role_permissions[role_id] : c = permission_code

\* The decision without the is_active test.
user_has_permission_no_active_check(user, permission_code) ==
    IF user.kind = "None" THEN FALSE
    ELSE IF ~user.is_authenticated THEN FALSE
    ELSE IF user.role_id = NoRole THEN FALSE
    ELSE filter_code_exists(user.role_id, permission_code)

\* A decision cache keyed by (user, code) that role changes do not flush.
user_has_permission_cached(user, permission_code) ==
    IF /\ user.kind = "User"
       /\ history.op = "request"
       /\ history.pk = user.pk
       /\ history.code = permission_code
       /\ history.status # 401
    THEN history.status = 200
    ELSE IF user.kind = "None" THEN FALSE
    ELSE IF ~user.is_authenticated THEN FALSE
    ELSE IF ~user.is_active THEN FALSE
    ELSE IF user.role_id = NoRole THEN FALSE
    ELSE filter_code_exists(user.role_id, permission_code)

\* user_has_permission: the four fail-closed tests, then the lookup.
user_has_permission(user, permission_code) ==
    IF user.kind = "None" THEN FALSE
    ELSE IF ~user.is_authenticated THEN FALSE
    ELSE IF ~user.is_active THEN FALSE
    ELSE IF user.role_id = NoRole THEN FALSE
    ELSE filter_code_exists(user.role_id, permission_code)

\* role.permissions.values_list("code", flat=True), in Meta.ordering
values_list_code(role_id) ==
    SelectSeq(OrderedCodes, LAMBDA c : c \in role_permissions[role_id])

\* The list taken from the Permission table instead of role.permissions.
get_user_permissions_all_rows(user) ==
    IF user.kind = "None" THEN <<>>
    ELSE IF ~user.is_authenticated THEN <<>>
    ELSE IF ~user.is_active THEN <<>>
    ELSE IF user.role_id = NoRole THEN <<>>
    ELSE SelectSeq(OrderedCodes, LAMBDA c : c \in permissions)

\* get_user_permissions: the same tests, then the codes of the role.
get_user_permissions(user) ==
    IF user.kind = "None" THEN <<>>
    ELSE IF ~user.is_authenticated THEN <<>>
    ELSE IF ~user.is_active THEN <<>>
    ELSE IF user.role_id = NoRole THEN <<>>
    ELSE values_list_code(user.role_id)

(* ----------------------------- store writes ----------------------------- *)
\* PermissionAdmin "add": a new Permission row; code is unique and non-blank.
PermissionAdmin_add(code) ==
    /\ response = Idle
    /\ code \notin permissions
    /\ permissions' = permissions \cup {code}
    /\ descriptions' = [c \in permissions \cup {code} |->
                           IF c = code THEN AdminDescription ELSE descriptions[c]]
    /\ UNCHANGED <<response, history, session_vars, audit_vars>>
    /\ UNCHANGED <<role_permissions, role_names, users, sequences>>

\* RoleAdmin "add": a new Role row with the chosen permissions.
RoleAdmin_add(perms) ==
    /\ response = Idle
    /\ sequences.role < MaxRoles
    /\ LET pk == sequences.role + 1
           name == AdminRoleNames[pk]
       IN /\ \A r \in DOMAIN role_names : role_names[r] # name
          /\ role_permissions' =
                 [r \in DOMAIN role_permissions \cup {pk} |->
                     IF r = pk THEN perms ELSE role_permissions[r]]
          /\ role_names' =
                 [r \in DOMAIN role_names \cup {pk} |->
                     IF r = pk THEN name ELSE role_names[r]]
          /\ sequences' = [sequences EXCEPT !.role = pk]
    /\ UNCHANGED <<response, history, session_vars, audit_vars>>
    /\ UNCHANGED <<permissions, descriptions, users>>

\* RoleAdmin "change": role.permissions is replaced by the chosen set.
RoleAdmin_change(role_id, perms) ==
    /\ response = Idle
    /\ role_id \in DOMAIN role_permissions
    /\ perms # role_permissions[role_id]
    /\ role_permissions' = [role_permissions EXCEPT ![role_id] = perms]
    /\ UNCHANGED <<response, history, session_vars, audit_vars>>
    /\ UNCHANGED <<permissions, descriptions, role_names, users, sequences>>

\* users.services.create_user: role_id is optional, is_active is a parameter.
\* A role_id that no Role row has violates the foreign key when the atomic
\* block commits: the call raises and leaves no row.
create_user(role_id, is_active) ==
    /\ response = Idle
    /\ sequences.user < MaxUsers
    /\ role_id \in {NoRole} \cup DOMAIN role_permissions
    /\ LET pk == sequences.user + 1
           row == [is_active |-> is_active, role_id |-> role_id,
                   token_version |-> 0, password |-> InitialPassword]
       IN /\ users' = [u \in DOMAIN users \cup {pk} |->
                          IF u = pk THEN row ELSE users[u]]
          /\ sequences' = [sequences EXCEPT !.user = pk]
    /\ UNCHANGED <<response, history, session_vars, audit_vars>>
    /\ UNCHANGED <<permissions, descriptions, role_permissions, role_names>>

\* users.services.update_user(user=..., role_id=...): role_id None is "not
\* passed", so only a real role can be written.
update_user(pk, role_id) ==
    /\ response = Idle
    /\ pk \in DOMAIN users
    /\ role_id \in DOMAIN role_permissions
    /\ role_id # users[pk].role_id
    /\ users' = [users EXCEPT ![pk].role_id = role_id]
    /\ UNCHANGED <<response, history, session_vars, audit_vars>>
    /\ UNCHANGED <<permissions, descriptions, role_permissions, role_names,
                   sequences>>

\* A foreign key that lets the referenced row go (on_delete=DO_NOTHING with
\* no constraint behind it).
on_delete_DO_NOTHING(role_id) == FALSE

\* User.role, on_delete=models.PROTECT: the collector refuses to delete a
\* Role that some User row references.
on_delete_PROTECT(role_id) ==
    \E u \in DOMAIN users : users[u].role_id = role_id

\* RoleAdmin "delete" (role.delete()): ProtectedError when the role is
\* assigned; otherwise the Role row and its role.permissions rows are deleted.
RoleAdmin_delete(role_id) ==
    /\ response = Idle
    /\ role_id \in DOMAIN role_permissions
    /\ IF on_delete_PROTECT(role_id)
       THEN /\ response' = [op |-> "role_delete", role_id |-> role_id,
                            raised |-> "ProtectedError"]
            /\ UNCHANGED <<role_permissions, role_names>>
       ELSE /\ response' = [op |-> "role_delete", role_id |-> role_id,
                            raised |-> "none"]
            /\ role_permissions' = [r \in DOMAIN role_permissions \ {role_id} |->
                                       role_permissions[r]]
            /\ role_names' = [r \in DOMAIN role_names \ {role_id} |->
                                 role_names[r]]
    /\ UNCHANGED <<permissions, descriptions, users, sequences, history, session_vars,
                   audit_vars>>

(* ----------------------------- service calls ---------------------------- *)
\* The caller takes the answer of its call; calls are made one at a time.
\* Once its transaction is over, the connection keeps nothing of it.
Return ==
    /\ response # Idle
    /\ response' = Idle
    /\ history' = Shift
    /\ IF connection.in_atomic_block
       THEN UNCHANGED <<savepoint, caller>>
       ELSE /\ savepoint' = [users |-> <<>>, audit_log |-> <<>>]
            /\ caller' = [saved |-> 0, audit_failed |-> FALSE, logged |-> {}]
    /\ UNCHANGED <<authz_vars, audit_log, connection, calls, session_vars>>

Call_user_has_permission(user, permission_code) ==
    /\ response = Idle
    /\ response' = [op |-> "user_has_permission", user |-> user,
                    code |-> permission_code,
                    result |-> user_has_permission(user, permission_code)]
    /\ UNCHANGED <<authz_vars, history, session_vars, audit_vars>>

Call_get_user_permissions(user) ==
    /\ response = Idle
    /\ response' = [op |-> "get_user_permissions", user |-> user,
                    result |-> get_user_permissions(user)]
    /\ UNCHANGED <<authz_vars, history, session_vars, audit_vars>>

(* ----------------------- authorization.permissions ---------------------- *)
\* A denial message is the sequence of the fragments of its f-string; a code
\* is a substring of the message when it is "" or one of the fragments (no
\* code of the model occurs inside a fixed fragment or inside another code).
Contains(message, code) ==
    code = "" \/ \E i \in 1..Len(message) : message[i] = code

\* The factories return the permission class: its _code/_codes and message.
\* A HasPermission class whose message does not interpolate the code.
HasPermission_generic_message(permission_code) ==
    [factory |-> "HasPermission",
     codes   |-> <<permission_code>>,
     message |-> <<"Permiso denegado.">>]

HasPermission(permission_code) ==
    [factory |-> "HasPermission",
     codes   |-> <<permission_code>>,
     message |-> <<"Permiso denegado. Se requiere: '", permission_code, "'.">>]

HasAnyPermission(permission_codes) ==
    [factory |-> "HasAnyPermission",
     codes   |-> permission_codes,
     message |-> <<"Permiso denegado. No posee ninguno de los permisos requeridos.">>]

HasAllPermissions(permission_codes) ==
    [factory |-> "HasAllPermissions",
     codes   |-> permission_codes,
     message |-> <<"Permiso denegado. No posee todos los permisos requeridos.">>]

\* rest_framework.permissions.IsAuthenticated, as the views list it next to
\* the gates: request.user and request.user.is_authenticated.
IsAuthenticated ==
    [factory |-> "IsAuthenticated",
     codes   |-> <<>>,
     message |-> <<"Authentication credentials were not provided.">>]

\* _HasPermission.has_permission(request, view)
\* A has_permission that checks one code whatever the class was built with.
HasPermission_has_permission_fixed_code(self, request_user) ==
    user_has_permission(request_user, "conciliacion.run")

HasPermission_has_permission(self, request_user) ==
    user_has_permission(request_user, self.codes[1])

\* _HasAnyPermission.has_permission(request, view): any(...)
\* A has_permission that looks at the first code only.
HasAnyPermission_has_permission_first_only(self, request_user) ==
    /\ Len(self.codes) > 0
    /\ user_has_permission(request_user, self.codes[1])

HasAnyPermission_has_permission(self, request_user) ==
    \E i \in 1..Len(self.codes) : user_has_permission(request_user, self.codes[i])

\* _HasAllPermissions.has_permission(request, view): all(...)
\* A has_permission that uses any() where all() is meant.
HasAllPermissions_has_permission_as_any(self, request_user) ==
    \E i \in 1..Len(self.codes) : user_has_permission(request_user, self.codes[i])

HasAllPermissions_has_permission(self, request_user) ==
    \A i \in 1..Len(self.codes) : user_has_permission(request_user, self.codes[i])

\* permission_class().has_permission(request, view) for whichever class
has_permission(gate, request_user) ==
    CASE gate.factory = "HasPermission" ->
             HasPermission_has_permission(gate, request_user)
      [] gate.factory = "HasAnyPermission" ->
             HasAnyPermission_has_permission(gate, request_user)
      [] gate.factory = "HasAllPermissions" ->
             HasAllPermissions_has_permission(gate, request_user)
      [] gate.factory = "IsAuthenticated" ->
             request_user.kind # "None" /\ request_user.is_authenticated

\* The tuples *permission_codes a view can pass to a factory.
CodeTuples == UNION {[1..n -> GateCodes] : n \in 0..MaxCodes}

\* What DRF puts in request.user: AnonymousUser or the authenticated User.
RequestUsers == {AnonymousUser} \cup {LoadUser(pk, TRUE) : pk \in DOMAIN users}

\* gate().has_permission(request, view), as the unit tests evaluate it
Evaluate(gate, request_user) ==
    /\ response = Idle
    /\ response' = [op |-> "gate", gate |-> gate, user |-> request_user,
                    result |-> has_permission(gate, request_user)]
    /\ UNCHANGED <<authz_vars, history, session_vars, audit_vars>>

Evaluate_HasPermission(permission_code, request_user) ==
    Evaluate(HasPermission(permission_code), request_user)

Evaluate_HasAnyPermission(permission_codes, request_user) ==
    Evaluate(HasAnyPermission(permission_codes), request_user)

Evaluate_HasAllPermissions(permission_codes, request_user) ==
    Evaluate(HasAllPermissions(permission_codes), request_user)

(* ------------------------------ HTTP requests --------------------------- *)
\* CustomJWTAuthentication.authenticate for a bearer token whose user_id claim
\* is pk: the row is read from the table; an inactive user is rejected.
authenticate(pk) ==
    IF users[pk].is_active THEN LoadUser(pk, TRUE) ELSE NoneUser

\* A request with the token of user pk to a view whose permission_classes is
\* [HasPermission(permission_code)]: authentication, then the gate.
GatedRequest(pk, permission_code) ==
    /\ response = Idle
    /\ pk \in DOMAIN users
    /\ LET user == authenticate(pk)
           status == IF user.kind = "None" THEN 401
                     ELSE IF has_permission(HasPermission(permission_code), user)
                          THEN 200 ELSE 403
       IN response' = [op |-> "request", pk |-> pk,
                       code |-> permission_code, status |-> status]
    /\ UNCHANGED <<authz_vars, history, session_vars, audit_vars>>

(* ------------------------------ audit.services -------------------------- *)
\* user=None and correlation_id=None, the defaults of the keyword arguments
NoUser == 0
NoCid == 0

\* Correlation ids a caller passes explicitly; uuid.uuid4() of the n-th call
\* is modelled as the fresh value n.
ExplicitCids == {101}
\* A default evaluated once, when the module is imported.
uuid4_at_import == NoCid + 1

uuid4 == calls + 1

\* UUID(int=0); uuid4() sets the version and variant bits, so never returns it.
NilUUID == 100

SUCCESS == "SUCCESS"
FAILURE == "FAILURE"

\* What the database does with the INSERT: it works or raises DatabaseError.
StorageOutcomes == {"ok", "DatabaseError"}

\* Model.save() of a new row on the connection.  Inside an atomic block that
\* is already marked for rollback every query raises
\* TransactionManagementError (a DatabaseError); a failing INSERT inside an
\* atomic block marks the block for rollback.
save(entry, storage) ==
    IF connection.in_atomic_block /\ connection.needs_rollback
    THEN [exc |-> "TransactionManagementError", audit_log |-> audit_log,
          needs_rollback |-> TRUE]
    ELSE IF storage = "DatabaseError"
    THEN [exc |-> "DatabaseError", audit_log |-> audit_log,
          needs_rollback |-> connection.in_atomic_block]
    ELSE [exc |-> "none", audit_log |-> Append(audit_log, entry),
          needs_rollback |-> connection.needs_rollback]

\* except IntegrityError instead of except DatabaseError
create_audit_entry_narrow_except(user, action, resource, status, metadata, correlation_id, storage) ==
    LET entry == [id |-> calls + 1, user |-> user, action |-> action,
                  resource |-> resource, status |-> status,
                  metadata |-> IF metadata # "None" THEN metadata ELSE "{}",
                  correlation_id |-> IF correlation_id # NoCid
                                     THEN correlation_id ELSE uuid4]
        saved == save(entry, storage)
    IN  IF saved.exc = "none"
        THEN [result |-> <<entry>>, raised |-> "none",
              audit_log |-> saved.audit_log,
              needs_rollback |-> saved.needs_rollback]
        ELSE [result |-> <<>>, raised |-> saved.exc,
              audit_log |-> saved.audit_log,
              needs_rollback |-> saved.needs_rollback]

\* An except branch that records the failure as a row of its own.
create_audit_entry_insert_on_failure(user, action, resource, status, metadata, correlation_id, storage) ==
    LET entry == [id |-> calls + 1, user |-> user, action |-> action,
                  resource |-> resource, status |-> status,
                  metadata |-> IF metadata # "None" THEN metadata ELSE "{}",
                  correlation_id |-> IF correlation_id # NoCid
                                     THEN correlation_id ELSE uuid4]
        saved == save(entry, storage)
    IN  IF saved.exc = "none"
        THEN [result |-> <<entry>>, raised |-> "none",
              audit_log |-> saved.audit_log,
              needs_rollback |-> saved.needs_rollback]
        ELSE [result |-> <<>>, raised |-> "none",
              audit_log |-> Append(saved.audit_log,
                                   [entry EXCEPT !.status = FAILURE]),
              needs_rollback |-> saved.needs_rollback]

\* create_audit_entry: build the entry, save it, return it; on DatabaseError
\* log and return None (the empty result).
create_audit_entry(user, action, resource, status, metadata, correlation_id, storage) ==
    LET entry == [id |-> calls + 1, user |-> user, action |-> action,
                  resource |-> resource, status |-> status,
                  metadata |-> IF metadata # "None" THEN metadata ELSE "{}",
                  correlation_id |-> IF correlation_id # NoCid
                                     THEN correlation_id ELSE uuid4]
        saved == save(entry, storage)
    IN  IF saved.exc = "none"
        THEN [result |-> <<entry>>, raised |-> "none",
              audit_log |-> saved.audit_log,
              needs_rollback |-> saved.needs_rollback]
        ELSE [result |-> <<>>, raised |-> "none",
              audit_log |-> saved.audit_log,
              needs_rollback |-> saved.needs_rollback]

log_action(user, action, resource, metadata, correlation_id, storage) ==
    create_audit_entry(user, action, resource, SUCCESS, metadata, correlation_id, storage)

\* A log_failure that passes status=AuditStatus.SUCCESS on.
log_failure_success_status(user, action, resource, metadata, correlation_id, storage) ==
    create_audit_entry(user, action, resource, SUCCESS, metadata, correlation_id, storage)

log_failure(user, action, resource, metadata, correlation_id, storage) ==
    create_audit_entry(user, action, resource, FAILURE, metadata, correlation_id, storage)

\* An audit call as its caller sees it: what was returned or raised, and what
\* the call did to the table and to the connection.
AuditCall(op, storage, out) ==
    /\ response = Idle
    /\ calls < MaxCalls
    /\ calls' = calls + 1
    /\ response' = [op |-> op, storage |-> storage, result |-> out.result,
                    raised |-> out.raised,
                    in_atomic_block |-> connection.in_atomic_block]
    /\ audit_log' = out.audit_log
    /\ connection' = [connection EXCEPT !.needs_rollback = out.needs_rollback]
    /\ caller' = IF ~connection.in_atomic_block THEN caller
                 ELSE IF out.result = <<>>
                 THEN [caller EXCEPT !.audit_failed = TRUE]
                 ELSE [caller EXCEPT !.logged = @ \cup {out.result[1].id}]
    /\ UNCHANGED <<authz_vars, history, session_vars, savepoint>>

Actors == {NoUser} \cup DOMAIN users
Actions == {"user.created"}
Resources == {"user"}
\* metadata=None (the default) or a dict
Metadatas == {"None", "{email}"}
Cids == {NoCid} \cup ExplicitCids
\* The action and resource of the usage examples of the module.
ExampleCalls == {<<"user.created", "user">>, <<"auth.login", "session">>}

Call_create_audit_entry(user, action, resource, status, metadata, correlation_id, storage) ==
    AuditCall("create_audit_entry", storage,
              create_audit_entry(user, action, resource, status, metadata, correlation_id, storage))

Call_log_action(user, action, resource, metadata, correlation_id, storage) ==
    AuditCall("log_action", storage,
              log_action(user, action, resource, metadata, correlation_id, storage))

Call_log_failure(user, action, resource, metadata, correlation_id, storage) ==
    AuditCall("log_failure", storage,
              log_failure(user, action, resource, metadata, correlation_id, storage))

(* ------------------- a business operation in an atomic block ------------ *)
\* The usage example of log_action: a service decorated with
\* @transaction.atomic that saves a row and logs the action before returning.

\* Entering the atomic block of the business service.
atomic_enter ==
    /\ response = Idle
    /\ ~connection.in_atomic_block
    /\ connection' = [in_atomic_block |-> TRUE, needs_rollback |-> FALSE]
    /\ savepoint' = [users |-> users, audit_log |-> audit_log]
    /\ caller' = [saved |-> 0, audit_failed |-> FALSE, logged |-> {}]
    /\ UNCHANGED <<authz_vars, response, history, session_vars, audit_log, calls>>

\* user.save() in the block.  On a connection marked for rollback the query
\* raises TransactionManagementError, which leaves the block: rollback.  A
\* rollback does not give back the pk the sequence handed out.
business_save ==
    /\ response = Idle
    /\ connection.in_atomic_block
    /\ sequences.user < MaxUsers
    /\ IF connection.needs_rollback
       THEN /\ users' = savepoint.users
            /\ sequences' = sequences
            /\ audit_log' = savepoint.audit_log
            /\ connection' = [in_atomic_block |-> FALSE, needs_rollback |-> FALSE]
            /\ response' = [op |-> "business", outcome |-> "raised",
                            audit_failed |-> caller.audit_failed,
                            saved |-> caller.saved,
                            logged |-> caller.logged]
            /\ caller' = caller
       ELSE /\ LET pk == sequences.user + 1
                   row == [is_active |-> TRUE, role_id |-> NoRole,
                           token_version |-> 0, password |-> InitialPassword]
               IN /\ users' = [u \in DOMAIN users \cup {pk} |->
                                  IF u = pk THEN row ELSE users[u]]
                  /\ sequences' = [sequences EXCEPT !.user = pk]
            /\ audit_log' = audit_log
            /\ connection' = connection
            /\ response' = Idle
            /\ caller' = [caller EXCEPT !.saved = @ + 1]
    /\ UNCHANGED <<permissions, descriptions, role_permissions, role_names,
                   history, session_vars, savepoint, calls>>

\* The service returns: Atomic.__exit__ commits, or rolls back when the
\* connection is marked for rollback.
atomic_exit ==
    /\ response = Idle
    /\ connection.in_atomic_block
    /\ IF connection.needs_rollback
       THEN /\ users' = savepoint.users
            /\ audit_log' = savepoint.audit_log
            /\ response' = [op |-> "business", outcome |-> "rolled_back",
                            audit_failed |-> caller.audit_failed,
                            saved |-> caller.saved,
                            logged |-> caller.logged]
       ELSE /\ users' = users
            /\ audit_log' = audit_log
            /\ response' = [op |-> "business", outcome |-> "committed",
                            audit_failed |-> caller.audit_failed,
                            saved |-> caller.saved,
                            logged |-> caller.logged]
    /\ connection' = [in_atomic_block |-> FALSE, needs_rollback |-> FALSE]
    /\ UNCHANGED <<permissions, descriptions, role_permissions, role_names,
                   sequences, history, session_vars, savepoint, caller, calls>>

\* The service raises after its audit call (a validation error, a failed
\* write of its own): the exception leaves the block and Atomic.__exit__
\* rolls back everything written on the connection since the block began.
business_raise ==
    /\ response = Idle
    /\ connection.in_atomic_block
    /\ users' = savepoint.users
    /\ audit_log' = savepoint.audit_log
    /\ response' = [op |-> "business", outcome |-> "raised",
                    audit_failed |-> caller.audit_failed,
                    saved |-> caller.saved,
                    logged |-> caller.logged]
    /\ connection' = [in_atomic_block |-> FALSE, needs_rollback |-> FALSE]
    /\ UNCHANGED <<permissions, descriptions, role_permissions, role_names,
                   sequences, history, session_vars, savepoint, caller, calls>>

(* --------------------------- audit read endpoints ----------------------- *)
\* Correlation ids that callers of the audit service share between entries.
QueryCids == {101, 102}

\* ?correlation_id=... as it arrives in request.query_params: not sent, sent
\* empty, the text of a UUID (in either letter case), or not a UUID at all.
CorrelationParams ==
    {"absent", "", "uuid-101", "UUID-101", "uuid-102", "uuid-103", "not-a-uuid"}

\* ?ordering=...; "id" is not among the allowed values.
OrderingParams == {"absent", "-timestamp", "timestamp", "id"}

InvalidUUID == -1

\* forms.UUIDField.to_python: uuid.UUID(value); hex digits in either case
\* give the same UUID, anything else is a validation error.
UUIDField_to_python(value) ==
    CASE value \in {"uuid-101", "UUID-101"} -> 101
      [] value = "uuid-102" -> 102
      [] value = "uuid-103" -> 103
      [] OTHER -> InvalidUUID

\* A FilterSet that does not declare correlation_id: the parameter is ignored.
AuditLogFilter_without_correlation_id(query_params, queryset) ==
    [is_valid |-> TRUE, qs |-> queryset]

\* AuditLogFilter(query_params, queryset=qs): is_valid() and .qs for the
\* correlation_id parameter; an absent or empty value does not filter.
AuditLogFilter(query_params, queryset) ==
    IF query_params.correlation_id \in {"absent", ""}
    THEN [is_valid |-> TRUE, qs |-> queryset]
    ELSE IF UUIDField_to_python(query_params.correlation_id) = InvalidUUID
    THEN [is_valid |-> FALSE, qs |-> <<>>]
    ELSE [is_valid |-> TRUE,
          qs |-> SelectSeq(queryset,
                     LAMBDA e : e.correlation_id =
                         UUIDField_to_python(query_params.correlation_id))]

\* The rows in reverse order of insertion.
Reverse(seq) == [i \in 1..Len(seq) |-> seq[Len(seq) + 1 - i]]

\* get_audit_log_list(): all rows, Meta.ordering = ["-timestamp"]
get_audit_log_list == Reverse(audit_log)

\* get_audit_log_by_id(log_id): the row, or None
get_audit_log_by_id(log_id) ==
    SelectSeq(audit_log, LAMBDA e : e.id = log_id)

\* The Response of AuditLogListView.get: filter, order, serialize.
AuditLogListView_get_Response(query_params) ==
    LET filterset == AuditLogFilter(query_params, get_audit_log_list)
        ordering_param == IF query_params.ordering = "absent"
                          THEN "-timestamp" ELSE query_params.ordering
        qs == IF ordering_param = "timestamp"
              THEN Reverse(filterset.qs) ELSE filterset.qs
    IN  IF ~filterset.is_valid
        THEN [status |-> 400, data |-> <<>>]
        ELSE [status |-> 200, data |-> qs]

\* AuditLogListView.get, for a request the gate has let through
AuditLogListView_get(query_params) ==
    /\ response = Idle
    /\ LET r == AuditLogListView_get_Response(query_params)
       IN response' = [op |-> "audit_list", query_params |-> query_params,
                       status |-> r.status, data |-> r.data]
    /\ UNCHANGED <<authz_vars, history, session_vars, audit_vars>>

\* The Response of AuditLogDetailView.get
AuditLogDetailView_get_Response(log_id) ==
    LET log == get_audit_log_by_id(log_id)
    IN  IF log = <<>>
        THEN [status |-> 404, data |-> <<>>]
        ELSE [status |-> 200, data |-> log]

\* AuditLogDetailView.get, for a request the gate has let through
AuditLogDetailView_get(log_id) ==
    /\ response = Idle
    /\ LET r == AuditLogDetailView_get_Response(log_id)
       IN response' = [op |-> "audit_detail", log_id |-> log_id,
                       status |-> r.status, data |-> r.data]
    /\ UNCHANGED <<authz_vars, history, session_vars, audit_vars>>

\* A method the audit views do not define (they define get only): APIView
\* answers 405 without touching the table.
AuditLogView_http_method_not_allowed(method) ==
    /\ response = Idle
    /\ response' = [op |-> "audit_http", method |-> method, status |-> 405]
    /\ UNCHANGED <<authz_vars, history, session_vars, audit_vars>>

(* ------------------------------- audit admin ---------------------------- *)
\* ModelAdmin's own has_*_permission for a staff user holding the permission.
ModelAdmin_has_permission == TRUE

\* BaseAuditLogAdmin.has_add_permission / has_change_permission /
\* has_delete_permission
BaseAuditLogAdmin_has_add_permission == FALSE
BaseAuditLogAdmin_has_change_permission == FALSE
BaseAuditLogAdmin_has_delete_permission == FALSE

\* The admin "add" view: PermissionDenied unless has_add_permission.
AuditLogAdmin_add(status) ==
    /\ response = Idle
    /\ IF BaseAuditLogAdmin_has_add_permission
       THEN /\ audit_log' = Append(audit_log,
                  [id |-> Len(audit_log) + MaxCalls + 1, user |-> NoUser,
                   action |-> "user.created", resource |-> "user",
                   status |-> status, metadata |-> "{}",
                   correlation_id |-> uuid4])
            /\ response' = [op |-> "admin_add", status |-> 302]
       ELSE /\ audit_log' = audit_log
            /\ response' = [op |-> "admin_add", status |-> 403]
    /\ UNCHANGED <<authz_vars, history, session_vars, connection, savepoint, caller, calls>>

\* The admin "change" view of a row: PermissionDenied unless
\* has_change_permission (every field is read-only besides).
AuditLogAdmin_change(log_id, status) ==
    /\ response = Idle
    /\ \E i \in 1..Len(audit_log) : audit_log[i].id = log_id
    /\ IF BaseAuditLogAdmin_has_change_permission
       THEN /\ audit_log' = [i \in 1..Len(audit_log) |->
                                IF audit_log[i].id = log_id
                                THEN [audit_log[i] EXCEPT !.status = status]
                                ELSE audit_log[i]]
            /\ response' = [op |-> "admin_change", status |-> 302]
       ELSE /\ audit_log' = audit_log
            /\ response' = [op |-> "admin_change", status |-> 403]
    /\ UNCHANGED <<authz_vars, history, session_vars, connection, savepoint, caller, calls>>

\* The admin "delete" view of a row (the delete_selected action is offered
\* under the same test): PermissionDenied unless has_delete_permission.
AuditLogAdmin_delete(log_id) ==
    /\ response = Idle
    /\ \E i \in 1..Len(audit_log) : audit_log[i].id = log_id
    /\ IF BaseAuditLogAdmin_has_delete_permission
       THEN /\ audit_log' = SelectSeq(audit_log, LAMBDA e : e.id # log_id)
            /\ response' = [op |-> "admin_delete", status |-> 302]
       ELSE /\ audit_log' = audit_log
            /\ response' = [op |-> "admin_delete", status |-> 403]
    /\ UNCHANGED <<authz_vars, history, session_vars, connection, savepoint, caller, calls>>

(* -------------------------------- user admin --------------------------- *)
\* Accounts the backoffice can create beyond those the services create.
MaxAccounts == MaxUsers + 1

\* UserAdmin "add": a new active User row without a role.
UserAdmin_add ==
    /\ response = Idle
    /\ sequences.user < MaxAccounts
    /\ LET pk == sequences.user + 1
           row == [is_active |-> TRUE, role_id |-> NoRole,
                   token_version |-> 0, password |-> InitialPassword]
       IN /\ users' = [u \in DOMAIN users \cup {pk} |->
                          IF u = pk THEN row ELSE users[u]]
          /\ sequences' = [sequences EXCEPT !.user = pk]
    /\ UNCHANGED <<response, history, session_vars, audit_vars>>
    /\ UNCHANGED <<permissions, descriptions, role_permissions, role_names>>

\* on_delete=models.CASCADE: the rows that reference the user go with it.
on_delete_CASCADE(rows, pk) ==
    SelectSeq(rows, LAMBDA e : e.user # pk)

\* BaseAuditLog.user, on_delete=models.SET_NULL: the rows that reference the
\* deleted user get user = NULL.
on_delete_SET_NULL(rows, pk) ==
    [i \in 1..Len(rows) |->
        IF rows[i].user = pk THEN [rows[i] EXCEPT !.user = NoUser] ELSE rows[i]]

\* UserAdmin "delete" (user.delete()): the collector applies on_delete to the
\* audit rows, then deletes the User row, in one transaction.
UserAdmin_delete(pk) ==
    /\ response = Idle
    /\ pk \in DOMAIN users
    /\ audit_log' = on_delete_SET_NULL(audit_log, pk)
    /\ users' = [u \in DOMAIN users \ {pk} |-> users[u]]
    /\ response' = [op |-> "user_delete", pk |-> pk, status |-> 302]
    /\ UNCHANGED <<permissions, descriptions, role_permissions, role_names,
                   sequences, history, session_vars, connection, savepoint, caller, calls>>

(* ------------------------- user administration API -------------------- *)
\* _generate_temp_password(): the n-th temporary password of a user.
TempPasswords == <<"temp-1", "temp-2">>

\* token_version value up to which the model follows deactivations and
\* resets: one per temporary password.
MaxTokenVersion == Len(TempPasswords)

\* No Authorization header: request.user is AnonymousUser.
NoToken == 0

\* A pk no row has (an id taken from a stale page, a typo).
UnknownPk == 99

\* A permission_classes of the user-administration views that leaves the
\* code out.
IsAuthenticated_only == <<IsAuthenticated>>

\* permission_classes / get_permissions() of the user-administration views
UserListCreateView_post_permissions == <<IsAuthenticated, HasPermission("usuarios.create")>>
UserDetailUpdateView_patch_permissions == <<IsAuthenticated, HasPermission("usuarios.edit")>>
UserDeactivateView_permission_classes == <<IsAuthenticated, HasPermission("usuarios.delete")>>
UserResetPasswordView_permission_classes == <<IsAuthenticated, HasPermission("usuarios.edit")>>

\* An initial whose authenticator sends no WWW-Authenticate header: DRF then
\* answers 403 to a request that is not authenticated.
initial_without_authenticate_header(pk, classes) ==
    IF pk # NoToken /\ pk \notin DOMAIN users THEN 403
    ELSE LET user == IF pk = NoToken THEN AnonymousUser ELSE authenticate(pk)
         IN  IF user.kind = "None" THEN 403
             ELSE IF \A i \in 1..Len(classes) : has_permission(classes[i], user)
             THEN 0
             ELSE 403

\* APIView.initial for the bearer token of user pk.  perform_authentication:
\* no header leaves AnonymousUser in request.user; the token of a user that
\* is gone or inactive raises AuthenticationFailed (401).  check_permissions
\* then asks every permission class in order; when one refuses,
\* permission_denied raises NotAuthenticated (401, the authenticator sends a
\* WWW-Authenticate header) if no authenticator succeeded and
\* PermissionDenied (403) otherwise.  0 when the handler may run.
initial(pk, classes) ==
    IF pk # NoToken /\ pk \notin DOMAIN users THEN 401
    ELSE LET user == IF pk = NoToken THEN AnonymousUser ELSE authenticate(pk)
         IN  IF user.kind = "None" THEN 401
             ELSE IF \A i \in 1..Len(classes) : has_permission(classes[i], user)
             THEN 0
             ELSE IF pk = NoToken THEN 401 ELSE 403

\* A request to a user-administration endpoint as the client sees it.
UserAdminResponse(endpoint, pk, target, status) ==
    [op |-> "user_admin", endpoint |-> endpoint, pk |-> pk,
     target |-> target, status |-> status]

\* POST /api/users/: UserListCreateView.post -> create_user.  An invalid
\* payload, an email already taken, a password the validators reject or a
\* role_id without a Role row end in 400 without a row.
UserListCreateView_post(pk, data) ==
    /\ response = Idle
    /\ LET denied == initial(pk, UserListCreateView_post_permissions)
           status == IF denied # 0 THEN denied
                     ELSE IF ~data.valid THEN 400
                     ELSE IF data.role_id \notin {NoRole} \cup DOMAIN role_permissions
                     THEN 400 ELSE 201
           new == sequences.user + 1
           row == [is_active |-> data.is_active, role_id |-> data.role_id,
                   token_version |-> 0, password |-> InitialPassword]
       IN /\ status = 201 => sequences.user < MaxAccounts
          /\ response' = UserAdminResponse("create", pk, new, status)
          /\ IF status = 201
             THEN /\ users' = [u \in DOMAIN users \cup {new} |->
                                  IF u = new THEN row ELSE users[u]]
                  /\ sequences' = [sequences EXCEPT !.user = new]
             ELSE UNCHANGED <<users, sequences>>
    /\ UNCHANGED <<permissions, descriptions, role_permissions, role_names,
                   history, session_vars, audit_vars>>

\* PATCH /api/users/{id}/: UserDetailUpdateView.patch -> update_user.  A
\* role_id of None is "not passed"; a role_id without a Role row violates the
\* foreign key at commit and the request fails with 500.
UserDetailUpdateView_patch(pk, user_id, data) ==
    /\ response = Idle
    /\ LET denied == initial(pk, UserDetailUpdateView_patch_permissions)
           status == IF denied # 0 THEN denied
                     ELSE IF user_id \notin DOMAIN users THEN 404
                     ELSE IF ~data.valid THEN 400
                     ELSE IF data.role_id \notin {NoRole} \cup DOMAIN role_permissions
                     THEN 500 ELSE 200
       IN /\ response' = UserAdminResponse("edit", pk, user_id, status)
          /\ users' = IF status = 200 /\ data.role_id # NoRole
                      THEN [users EXCEPT ![user_id].role_id = data.role_id]
                      ELSE users
    /\ UNCHANGED <<permissions, descriptions, role_permissions, role_names,
                   sequences, history, session_vars, audit_vars>>

\* POST /api/users/{id}/deactivate/: UserDeactivateView.post ->
\* deactivate_user
UserDeactivateView_post(pk, user_id) ==
    /\ response = Idle
    /\ LET denied == initial(pk, UserDeactivateView_permission_classes)
           status == IF denied # 0 THEN denied
                     ELSE IF user_id \notin DOMAIN users THEN 404
                     ELSE IF ~users[user_id].is_active THEN 400
                     ELSE 200
       IN /\ status = 200 => users[user_id].token_version < MaxTokenVersion
          /\ response' = UserAdminResponse("deactivate", pk, user_id, status)
          /\ users' = IF status = 200
                      THEN [users EXCEPT ![user_id].is_active = FALSE,
                                         ![user_id].token_version = @ + 1]
                      ELSE users
    /\ UNCHANGED <<permissions, descriptions, role_permissions, role_names,
                   sequences, history, session_vars, audit_vars>>

\* POST /api/users/{id}/reset-password/: UserResetPasswordView.post ->
\* reset_password
UserResetPasswordView_post(pk, user_id) ==
    /\ response = Idle
    /\ LET denied == initial(pk, UserResetPasswordView_permission_classes)
           status == IF denied # 0 THEN denied
                     ELSE IF user_id \notin DOMAIN users THEN 404
                     ELSE 200
       IN /\ status = 200 => users[user_id].token_version < MaxTokenVersion
          /\ response' = UserAdminResponse("reset-password", pk, user_id, status)
          /\ users' = IF status = 200
                      THEN [users EXCEPT
                               ![user_id].password =
                                   TempPasswords[users[user_id].token_version + 1],
                               ![user_id].token_version = @ + 1]
                      ELSE users
    /\ UNCHANGED <<permissions, descriptions, role_permissions, role_names,
                   sequences, history, session_vars, audit_vars>>

(* ---------------------------- seed_authorization ----------------------- *)
PERMISSIONS ==
    << [code |-> "conciliacion.run",
        description |-> "Ejecutar el proceso de conciliación automática"],
       [code |-> "conciliacion.view",
        description |-> "Ver resultados y estado de conciliaciones"],
       [code |-> "conciliacion.export",
        description |-> "Exportar reportes de conciliación"],
       [code |-> "usuarios.view",
        description |-> "Ver listado de usuarios del sistema"],
       [code |-> "usuarios.create",
        description |-> "Crear nuevos usuarios"],
       [code |-> "usuarios.edit",
        description |-> "Editar datos de usuarios existentes"],
       [code |-> "usuarios.delete",
        description |-> "Eliminar usuarios del sistema"],
       [code |-> "reportes.view",
        description |-> "Ver reportes del sistema"],
       [code |-> "reportes.export",
        description |-> "Exportar reportes en distintos formatos"],
       [code |-> "dashboard.view",
        description |-> "Ver el panel de métricas principal"],
       [code |-> "admin.full",
        description |-> "Acceso completo al panel de administración"] >>

ROLES ==
    << [name |-> "Solo Lectura",
        permissions |-> {"conciliacion.view", "reportes.view", "dashboard.view"}],
       [name |-> "Analista",
        permissions |-> {"conciliacion.run", "conciliacion.view",
                         "reportes.view", "dashboard.view"}],
       [name |-> "Supervisor",
        permissions |-> {"conciliacion.run", "conciliacion.view",
                         "conciliacion.export", "reportes.view",
                         "reportes.export", "dashboard.view"}],
       [name |-> "Administrador",
        permissions |-> {PERMISSIONS[i].code : i \in 1..Len(PERMISSIONS)}] >>

\* Role pks the command may use up before the model stops running it.
MaxRolePk == MaxRoles + 2 * Len(ROLES)

\* The authorization tables as the command reads and writes them.
Tables ==
    [permissions |-> permissions, descriptions |-> descriptions,
     role_permissions |-> role_permissions, role_names |-> role_names,
     sequences |-> sequences, created_perms |-> 0, created_roles |-> 0]

\* Permission.objects.update_or_create(code=..., defaults={"description": ...})
Permission_update_or_create(t, pdata) ==
    IF pdata.code \in t.permissions
    THEN [t EXCEPT !.descriptions[pdata.code] = pdata.description]
    ELSE [t EXCEPT
             !.permissions = @ \cup {pdata.code},
             !.descriptions = [c \in t.permissions \cup {pdata.code} |->
                                  IF c = pdata.code THEN pdata.description
                                  ELSE t.descriptions[c]],
             !.created_perms = @ + 1]

\* Role.objects.create(name=...) where get_or_create is meant.
Role_create(t, name) ==
    LET pk == t.sequences.role + 1
    IN  [role |-> pk, created |-> TRUE,
         t |-> [t EXCEPT
                   !.role_permissions = [r \in DOMAIN t.role_permissions \cup {pk} |->
                                            IF r = pk THEN {} ELSE t.role_permissions[r]],
                   !.role_names = [r \in DOMAIN t.role_names \cup {pk} |->
                                      IF r = pk THEN name ELSE t.role_names[r]],
                   !.sequences.role = pk]]

\* Role.objects.get_or_create(name=...)
Role_get_or_create(t, name) ==
    IF \E r \in DOMAIN t.role_names : t.role_names[r] = name
    THEN [role |-> CHOOSE r \in DOMAIN t.role_names : t.role_names[r] = name,
          created |-> FALSE, t |-> t]
    ELSE LET pk == t.sequences.role + 1
         IN  [role |-> pk, created |-> TRUE,
              t |-> [t EXCEPT
                        !.role_permissions = [r \in DOMAIN t.role_permissions \cup {pk} |->
                                                 IF r = pk THEN {} ELSE t.role_permissions[r]],
                        !.role_names = [r \in DOMAIN t.role_names \cup {pk} |->
                                           IF r = pk THEN name ELSE t.role_names[r]],
                        !.sequences.role = pk]]

\* for pdata in PERMISSIONS[i:]: update_or_create
RECURSIVE sync_permissions(_, _)
sync_permissions(t, i) ==
    IF i > Len(PERMISSIONS) THEN t
    ELSE sync_permissions(Permission_update_or_create(t, PERMISSIONS[i]), i + 1)

\* for rdata in ROLES[i:]: get_or_create, then
\* role.permissions.set(Permission.objects.filter(code__in=...))
RECURSIVE sync_roles(_, _)
sync_roles(t, i) ==
    IF i > Len(ROLES) THEN t
    ELSE LET got == Role_get_or_create(t, ROLES[i].name)
             perms == ROLES[i].permissions \cap got.t.permissions
             next == [got.t EXCEPT
                         !.role_permissions[got.role] = perms,
                         !.created_roles = IF got.created THEN @ + 1 ELSE @]
         IN  sync_roles(next, i + 1)

\* --clear: Role.objects.all().delete(); Permission.objects.all().delete()
clear_tables(t) ==
    [t EXCEPT !.permissions = {}, !.descriptions = <<>>,
              !.role_permissions = <<>>, !.role_names = <<>>]

\* Command.handle without the ProtectedError of --clear
handle(t, clear) ==
    sync_roles(sync_permissions(IF clear THEN clear_tables(t) ELSE t, 1), 1)

\* python manage.py seed_authorization [--clear]
seed_authorization(clear) ==
    /\ response = Idle
    /\ sequences.role + Len(ROLES) <= MaxRolePk
    /\ IF clear /\ \E r \in DOMAIN role_permissions : on_delete_PROTECT(r)
       THEN /\ response' = [op |-> "seed", clear |-> clear,
                            raised |-> "ProtectedError",
                            created_perms |-> 0, created_roles |-> 0]
            /\ UNCHANGED <<permissions, descriptions, role_permissions,
                           role_names, sequences>>
       ELSE LET t == handle(Tables, clear)
            IN  /\ permissions' = t.permissions
                /\ descriptions' = t.descriptions
                /\ role_permissions' = t.role_permissions
                /\ role_names' = t.role_names
                /\ sequences' = t.sequences
                /\ response' = [op |-> "seed", clear |-> clear,
                                raised |-> "none",
                                created_perms |-> t.created_perms,
                                created_roles |-> t.created_roles]
    /\ UNCHANGED <<users, history, session_vars, audit_vars>>

(* ------------------------------ specification --------------------------- *)
Init ==
    /\ permissions = {}
    /\ descriptions = <<>>
    /\ role_permissions = <<>>
    /\ role_names = <<>>
    /\ users = <<>>
    /\ sequences = [role |-> 0, user |-> 0]
    /\ response = Idle
    /\ history = Idle
    /\ audit_log = <<>>
    /\ connection = [in_atomic_block |-> FALSE, needs_rollback |-> FALSE]
    /\ savepoint = [users |-> <<>>, audit_log |-> <<>>]
    /\ caller = [saved |-> 0, audit_failed |-> FALSE, logged |-> {}]
    /\ calls = 0
    /\ tokens = {}
    /\ requests = <<>>
    /\ completed = <<>>
    /\ deactivated = {}
    /\ profiles = <<>>

NextAuthz ==
    \/ \E code \in PermCodes : PermissionAdmin_add(code)
    \/ \E perms \in SUBSET permissions : RoleAdmin_add(perms)
    \/ \E r \in RoleIds, perms \in SUBSET permissions : RoleAdmin_change(r, perms)
    \/ \E r \in {NoRole} \cup RoleIds, a \in BOOLEAN : create_user(r, a)
    \/ \E pk \in UserIds, r \in RoleIds : update_user(pk, r)
    \/ \E user \in Principals, code \in CheckCodes :
           Call_user_has_permission(user, code)
    \/ \E user \in Principals : Call_get_user_permissions(user)
    \/ Return

SpecAuthz == Init /\ [][NextAuthz]_vars

NextGates ==
    \/ \E code \in PermCodes : PermissionAdmin_add(code)
    \/ \E perms \in SUBSET permissions : RoleAdmin_add(perms)
    \/ \E r \in RoleIds, perms \in SUBSET permissions : RoleAdmin_change(r, perms)
    \/ \E r \in {NoRole} \cup RoleIds, a \in BOOLEAN : create_user(r, a)
    \/ \E pk \in UserIds, r \in RoleIds : update_user(pk, r)
    \/ \E code \in GateCodes, user \in RequestUsers :
           Evaluate_HasPermission(code, user)
    \/ \E codes \in CodeTuples, user \in RequestUsers :
           Evaluate_HasAnyPermission(codes, user)
    \/ \E codes \in CodeTuples, user \in RequestUsers :
           Evaluate_HasAllPermissions(codes, user)
    \/ Return

SpecGates == Init /\ [][NextGates]_vars

NextNoCache ==
    \/ \E code \in PermCodes : PermissionAdmin_add(code)
    \/ \E perms \in SUBSET permissions : RoleAdmin_add(perms)
    \/ \E r \in RoleIds, perms \in SUBSET permissions : RoleAdmin_change(r, perms)
    \/ \E r \in {NoRole} \cup RoleIds, a \in BOOLEAN : create_user(r, a)
    \/ \E pk \in UserIds, r \in RoleIds : update_user(pk, r)
    \/ \E pk \in UserIds, code \in GateCodes : GatedRequest(pk, code)
    \/ Return

SpecNoCache == Init /\ [][NextNoCache]_vars

NextAudit ==
    \/ \E user \in Actors, action \in Actions, resource \in Resources,
          status \in {SUCCESS, FAILURE}, metadata \in Metadatas,
          cid \in Cids, storage \in StorageOutcomes :
           Call_create_audit_entry(user, action, resource, status, metadata,
                                   cid, storage)
    \/ \E user \in Actors, action \in Actions, resource \in Resources,
          metadata \in Metadatas, cid \in Cids, storage \in StorageOutcomes :
           Call_log_action(user, action, resource, metadata, cid, storage)
    \/ \E user \in Actors, action \in Actions, resource \in Resources,
          metadata \in Metadatas, cid \in Cids, storage \in StorageOutcomes :
           Call_log_failure(user, action, resource, metadata, cid, storage)
    \/ atomic_enter
    \/ business_save
    \/ atomic_exit
    \/ business_raise
    \/ Return

SpecAudit == Init /\ [][NextAudit]_vars

NextAuditLog ==
    \/ \E status \in {SUCCESS, FAILURE}, metadata \in Metadatas,
          cid \in {NoCid} \cup QueryCids, storage \in StorageOutcomes :
           Call_create_audit_entry(NoUser, "user.created", "user", status,
                                   metadata, cid, storage)
    \/ \E cid \in {NoCid} \cup QueryCids, storage \in StorageOutcomes :
           Call_log_action(NoUser, "user.created", "user", "None", cid, storage)
    \/ \E cid \in {NoCid} \cup QueryCids, storage \in StorageOutcomes :
           Call_log_failure(NoUser, "auth.login", "session", "None", cid, storage)
    \/ \E c \in CorrelationParams, o \in OrderingParams :
           AuditLogListView_get([correlation_id |-> c, ordering |-> o])
    \/ \E log_id \in 1..(MaxCalls + 1) : AuditLogDetailView_get(log_id)
    \/ \E method \in {"POST", "PUT", "PATCH", "DELETE"} :
           AuditLogView_http_method_not_allowed(method)
    \/ \E status \in {SUCCESS, FAILURE} : AuditLogAdmin_add(status)
    \/ \E log_id \in 1..MaxCalls, status \in {SUCCESS, FAILURE} :
           AuditLogAdmin_change(log_id, status)
    \/ \E log_id \in 1..MaxCalls : AuditLogAdmin_delete(log_id)
    \/ Return

SpecAuditLog == Init /\ [][NextAuditLog]_vars

NextRoles ==
    \/ \E code \in PermCodes : PermissionAdmin_add(code)
    \/ \E perms \in SUBSET permissions : RoleAdmin_add(perms)
    \/ \E r \in RoleIds, perms \in SUBSET permissions : RoleAdmin_change(r, perms)
    \/ \E r \in RoleIds : RoleAdmin_delete(r)
    \/ \E r \in {NoRole} \cup RoleIds, a \in BOOLEAN : create_user(r, a)
    \/ \E pk \in UserIds, r \in RoleIds : update_user(pk, r)
    \/ UserAdmin_add
    \/ \E pk \in 1..MaxAccounts : UserAdmin_delete(pk)
    \/ Return

SpecRoles == Init /\ [][NextRoles]_vars

NextSeed ==
    \/ \E code \in PermCodes : PermissionAdmin_add(code)
    \/ \E perms \in SUBSET (permissions \cap PermCodes) : RoleAdmin_add(perms)
    \/ \E r \in RoleIds, perms \in SUBSET (permissions \cap PermCodes) :
           RoleAdmin_change(r, perms)
    \/ \E r \in RoleIds : create_user(r, TRUE)
    \/ \E clear \in BOOLEAN : seed_authorization(clear)
    \/ Return

SpecSeed == Init /\ [][NextSeed]_vars

\* The codes of the user-administration gates.
UserAdminCodes == {"usuarios.create", "usuarios.edit", "usuarios.delete"}

\* The permission sets the backoffice gives to the first role: all of the
\* user-administration codes, or all but one.
UserAdminGrants ==
    {UserAdminCodes} \cup {UserAdminCodes \ {c} : c \in UserAdminCodes}

NextUserAdmin ==
    \/ seed_authorization(FALSE)
    \/ \E perms \in UserAdminGrants : RoleAdmin_change(1, perms \cap permissions)
    \/ \E r \in {NoRole, 1}, a \in BOOLEAN : create_user(r, a)
    \/ \E pk \in {NoToken} \cup DOMAIN users, role_id \in {NoRole, 1, UnknownPk},
          is_active \in BOOLEAN, valid \in BOOLEAN :
           UserListCreateView_post(pk, [role_id |-> role_id,
                                        is_active |-> is_active, valid |-> valid])
    \/ \E pk \in {NoToken} \cup DOMAIN users,
          user_id \in DOMAIN users \cup {UnknownPk},
          role_id \in {NoRole, 1, UnknownPk}, valid \in BOOLEAN :
           UserDetailUpdateView_patch(pk, user_id,
                                      [role_id |-> role_id, valid |-> valid])
    \/ \E pk \in {NoToken} \cup DOMAIN users,
          user_id \in DOMAIN users \cup {UnknownPk} :
           UserDeactivateView_post(pk, user_id)
    \/ \E pk \in {NoToken} \cup DOMAIN users,
          user_id \in DOMAIN users \cup {UnknownPk} :
           UserResetPasswordView_post(pk, user_id)
    \/ Return

SpecUserAdmin == Init /\ [][NextUserAdmin]_vars

NextUserDelete ==
    \/ UserAdmin_add
    \/ \E user \in DOMAIN users, metadata \in Metadatas,
          storage \in StorageOutcomes :
           Call_log_action(user, "user.login", "session", metadata, NoCid, storage)
    \/ \E user \in DOMAIN users, storage \in StorageOutcomes :
           Call_log_failure(user, "auth.login", "session", "None", NoCid, storage)
    \/ \E pk \in 1..MaxAccounts : UserAdmin_delete(pk)
    \/ Return

SpecUserDelete == Init /\ [][NextUserDelete]_vars

(* =============================== claims ================================= *)
Eligible(user) ==
    /\ user.kind = "User"
    /\ user.is_authenticated
    /\ user.is_active
    /\ user.role_id # NoRole

\* C1: user_has_permission returns False (a boolean, nothing is raised) for
\* every code when the user is None, unauthenticated, inactive or has no
\* role, whatever the roles of the store hold.
C1_FailClosed ==
    response.op = "user_has_permission" =>
        /\ response.result \in BOOLEAN
        /\ ~Eligible(response.user) => response.result = FALSE

\* An inactive user whose role holds the code was asked about and denied.
C1_Witness ==
    /\ response.op = "user_has_permission"
    /\ response.user.kind = "User"
    /\ response.user.is_authenticated
    /\ ~response.user.is_active
    /\ response.user.role_id # NoRole
    /\ response.code \in role_permissions[response.user.role_id]
    /\ response.result = FALSE

\* C2: for an authenticated, active user with a role the answer is True
\* exactly when the role's permission set has a row with that very code; the
\* empty code, a code differing in case and a code of another role are denied.
C2_ExactMatch ==
    (response.op = "user_has_permission" /\ Eligible(response.user)) =>
        /\ response.result = (response.code \in role_permissions[response.user.role_id])
        /\ response.code = "" => response.result = FALSE

\* The role holds "Conciliacion.Run" only, another role holds
\* "conciliacion.run", and the check for "conciliacion.run" was denied.
C2_Witness ==
    /\ response.op = "user_has_permission"
    /\ Eligible(response.user)
    /\ response.code = "conciliacion.run"
    /\ role_permissions[response.user.role_id] = {"Conciliacion.Run"}
    /\ \E r \in DOMAIN role_permissions : "conciliacion.run" \in role_permissions[r]
    /\ response.result = FALSE

\* The elements of a list.
Range(seq) == {seq[i] : i \in 1..Len(seq)}

\* C3: get_user_permissions returns exactly the codes of the role of an
\* authenticated, active user with a role (each once), and the empty list for
\* any other user.
C3_ListPermissions ==
    response.op = "get_user_permissions" =>
        IF Eligible(response.user)
        THEN /\ Range(response.result) = role_permissions[response.user.role_id]
             /\ Len(response.result) = Cardinality(role_permissions[response.user.role_id])
        ELSE response.result = <<>>

\* A non-empty list was returned while the table has a permission the role
\* does not hold.
C3_Witness ==
    /\ response.op = "get_user_permissions"
    /\ Eligible(response.user)
    /\ Len(response.result) = 1
    /\ Cardinality(permissions) = 2

\* What the store grants to the user of a token, computed from the tables.
StoreStatus(pk, code) ==
    IF ~users[pk].is_active THEN 401
    ELSE IF /\ users[pk].role_id # NoRole
            /\ code \in role_permissions[users[pk].role_id]
         THEN 200 ELSE 403

\* C4: no cached authorization state: the answer to a gated request is the
\* one the tables determine when the request is made, also right after the
\* user's role was reassigned or a role's permissions were changed, with the
\* token the user already had.
C4_NoCache ==
    response.op = "request" =>
        response.status = StoreStatus(response.pk, response.code)

\* The same user asked for the same code twice with no login in between: the
\* first request was granted, the next one, after a change of the store, was
\* denied.
C4_Witness ==
    /\ response.op = "request"
    /\ history.op = "request"
    /\ history.pk = response.pk
    /\ history.code = response.code
    /\ history.status = 200
    /\ response.status = 403

\* C5: a HasAnyPermission gate grants exactly when user_has_permission is
\* true for at least one of its codes.
C5_AnyGate ==
    (response.op = "gate" /\ response.gate.factory = "HasAnyPermission") =>
        response.result =
            (\E i \in 1..Len(response.gate.codes) :
                 user_has_permission(response.user, response.gate.codes[i]))

\* HasAnyPermission(a, b) granted a user who holds b and not a.
C5_Witness ==
    /\ response.op = "gate"
    /\ response.gate.factory = "HasAnyPermission"
    /\ Len(response.gate.codes) = 2
    /\ Eligible(response.user)
    /\ response.gate.codes[1] \notin role_permissions[response.user.role_id]
    /\ response.gate.codes[2] \in role_permissions[response.user.role_id]
    /\ response.result = TRUE

\* C6: a HasAllPermissions gate grants exactly when user_has_permission is
\* true for every one of its codes; holding only some of them is denied.
C6_AllGate ==
    (response.op = "gate" /\ response.gate.factory = "HasAllPermissions") =>
        response.result =
            (\A i \in 1..Len(response.gate.codes) :
                 user_has_permission(response.user, response.gate.codes[i]))

\* HasAllPermissions(a, b) denied a user who holds a and not b.
C6_Witness ==
    /\ response.op = "gate"
    /\ response.gate.factory = "HasAllPermissions"
    /\ Len(response.gate.codes) = 2
    /\ Eligible(response.user)
    /\ response.gate.codes[1] \in role_permissions[response.user.role_id]
    /\ response.gate.codes[2] \notin role_permissions[response.user.role_id]
    /\ response.result = FALSE

\* C7: a HasPermission gate grants exactly when user_has_permission is true
\* for the code it was built with, whatever other codes the user holds.
C7_SingleGate ==
    (response.op = "gate" /\ response.gate.factory = "HasPermission") =>
        /\ Len(response.gate.codes) = 1
        /\ response.result =
               user_has_permission(response.user, response.gate.codes[1])

\* The gate for "Conciliacion.Run" denied a user for whom the gate for
\* "conciliacion.run" grants.
C7_Witness ==
    /\ response.op = "gate"
    /\ response.gate = HasPermission("Conciliacion.Run")
    /\ response.result = FALSE
    /\ has_permission(HasPermission("conciliacion.run"), response.user)

\* C8 as stated: the denial message of every gate contains each code the
\* gate evaluates.
C8_Original ==
    response.op = "gate" =>
        \A i \in 1..Len(response.gate.codes) :
            Contains(response.gate.message, response.gate.codes[i])

\* C8 (amended): the denial message of a HasPermission gate contains its
\* code; the messages of HasAnyPermission and HasAllPermissions gates are the
\* same fixed text for every tuple of codes.
C8_Messages ==
    response.op = "gate" =>
        IF response.gate.factory = "HasPermission"
        THEN Contains(response.gate.message, response.gate.codes[1])
        ELSE /\ Len(response.gate.message) = 1
             /\ \A i \in 1..Len(response.gate.codes) :
                    response.gate.message[1] # response.gate.codes[i]
             /\ response.gate.message \in
                    {HasAnyPermission(<<>>).message, HasAllPermissions(<<>>).message}

\* A HasPermission gate denied a request and its message names its code.
C8_Witness ==
    /\ response.op = "gate"
    /\ response.gate.factory = "HasPermission"
    /\ response.gate.codes = <<"conciliacion.run">>
    /\ response.result = FALSE

AuditOps == {"create_audit_entry", "log_action", "log_failure"}

C10_BusinessCommits ==
    (response.op = "business" /\ response.audit_failed) =>
        /\ response.outcome = "committed"
        /\ Cardinality(DOMAIN users) =
               Cardinality(DOMAIN savepoint.users) + response.saved

\* The ids of the rows of the audit table.
AuditIds == {audit_log[i].id : i \in 1..Len(audit_log)}

\* C11: an audit row written during a business operation is not part of that
\* operation's transaction: when the caller's transaction rolls back after
\* the audit call returned an entry, the row is still in the table.
C11_AuditSurvivesRollback ==
    (response.op = "business" /\ response.outcome # "committed") =>
        response.logged \subseteq AuditIds

\* The row the last INSERT added to the audit table.
LastRow == audit_log[Len(audit_log)]

\* C12: every entry persisted by log_action has status SUCCESS and every
\* entry persisted by log_failure has status FAILURE; wherever a call can be
\* made, for the same other arguments the two calls persist under the same
\* conditions and store the same value in every field but status.
C12_StatusForced ==
    /\ (response.op = "log_action" /\ response.result # <<>>) =>
           /\ response.result[1].status = SUCCESS
           /\ LastRow = response.result[1]
    /\ (response.op = "log_failure" /\ response.result # <<>>) =>
           /\ response.result[1].status = FAILURE
           /\ LastRow = response.result[1]
    /\ response = Idle =>
       \A user \in Actors, ex \in ExampleCalls, metadata \in Metadatas,
          cid \in Cids, storage \in StorageOutcomes :
           LET a == log_action(user, ex[1], ex[2], metadata, cid, storage)
               f == log_failure(user, ex[1], ex[2], metadata, cid, storage)
           IN  /\ (a.result = <<>>) = (f.result = <<>>)
               /\ a.result # <<>> =>
                      /\ a.result[1].status = SUCCESS
                      /\ f.result[1].status = FAILURE
                      /\ [a.result[1] EXCEPT !.status = FAILURE] = f.result[1]

\* log_failure persisted an entry of a user with metadata and an explicit
\* correlation id, after log_action had persisted one.
C12_Witness ==
    /\ response.op = "log_failure"
    /\ response.result # <<>>
    /\ response.result[1].user # NoUser
    /\ response.result[1].metadata = "{email}"
    /\ response.result[1].correlation_id \in ExplicitCids
    /\ Len(audit_log) = 2
    /\ audit_log[1].status = SUCCESS
    /\ audit_log[2].status = FAILURE


\* C13: every call of the audit service makes one INSERT attempt on the audit
\* table: the table grows by exactly the returned entry when the call returns
\* one and keeps its rows when the call returns None (nothing is retried or
\* replayed by a later call), and no other table changes.
C13_SingleInsert ==
    [][(calls' = calls + 1) =>
           /\ response'.op \in AuditOps
           /\ IF response'.result # <<>>
              THEN audit_log' = Append(audit_log, response'.result[1])
              ELSE audit_log' = audit_log
           /\ UNCHANGED authz_vars]_vars

\* The second call persisted its entry and the table has this one row: the
\* first call left none behind.
C13_Witness ==
    /\ response.op \in AuditOps
    /\ response.result # <<>>
    /\ response.result[1].id = 2
    /\ audit_log = <<response.result[1]>>


\* The correlation ids of the rows of the audit table that were generated.
GeneratedAt(i) == audit_log[i].correlation_id \notin ExplicitCids

\* C14: with no correlation_id the stored entry gets a freshly generated,
\* non-nil id that no other entry has, so no two entries share a generated
\* id; with no user its actor is null; a correlation_id that is passed is
\* stored verbatim (the last three for every call that can be made).
C14_CorrelationId ==
    /\ \A i, j \in 1..Len(audit_log) :
           (i # j /\ GeneratedAt(i) /\ GeneratedAt(j)) =>
               audit_log[i].correlation_id # audit_log[j].correlation_id
    /\ \A i \in 1..Len(audit_log) :
           audit_log[i].correlation_id \notin {NoCid, NilUUID}
    /\ response = Idle =>
       \A user \in Actors, ex \in ExampleCalls, status \in {SUCCESS, FAILURE},
          metadata \in Metadatas, cid \in Cids :
           LET out == create_audit_entry(user, ex[1], ex[2], status,
                                         metadata, cid, "ok")
           IN  out.result # <<>> =>
                 /\ out.result[1].user = user
                 /\ IF cid = NoCid
                    THEN /\ out.result[1].correlation_id \notin {NoCid, NilUUID}
                         /\ \A i \in 1..Len(audit_log) :
                                audit_log[i].correlation_id #
                                    out.result[1].correlation_id
                    ELSE out.result[1].correlation_id = cid

\* Two consecutive log_action calls without user and correlation_id left two
\* rows with null actor and different generated ids.
C14_Witness ==
    /\ response.op = "log_action"
    /\ Len(audit_log) = 2
    /\ response.result = <<audit_log[2]>>
    /\ GeneratedAt(1) /\ GeneratedAt(2)
    /\ audit_log[1].correlation_id # audit_log[2].correlation_id
    /\ audit_log[1].user = NoUser
    /\ audit_log[2].user = NoUser


\* C15: filtering the log by a correlation id returns exactly the entries
\* that were written with that id: all of them, each once, and none written
\* with another explicit id or with a generated one.
C15_FilterByCorrelationId ==
    (/\ response.op = "audit_list"
     /\ UUIDField_to_python(response.query_params.correlation_id) # InvalidUUID) =>
        LET cid == UUIDField_to_python(response.query_params.correlation_id)
            written == {e \in Range(audit_log) : e.correlation_id = cid}
        IN  /\ response.status = 200
            /\ Range(response.data) = written
            /\ Len(response.data) = Cardinality(written)

\* The log holds an entry written with 101 and one written with another id
\* (explicit or generated); the list for 101 has the first one only.
C15_Witness ==
    /\ response.op = "audit_list"
    /\ response.query_params.correlation_id = "UUID-101"
    /\ Len(audit_log) = 2
    /\ audit_log[1].correlation_id = 101
    /\ audit_log[2].correlation_id # 101
    /\ response.data = <<audit_log[1]>>


\* The fields of an entry other than its actor.
Content(e) ==
    [id |-> e.id, action |-> e.action, resource |-> e.resource,
     status |-> e.status, metadata |-> e.metadata,
     correlation_id |-> e.correlation_id]

\* C16: the audit log is append-only: no step of the audit service, of the
\* audit HTTP endpoints or of the audit admin removes a row or changes the
\* action, resource, status, metadata, position in time or correlation id of
\* a row; the row count never decreases.
C16_AppendOnly ==
    [][/\ Len(audit_log') >= Len(audit_log)
       /\ \A i \in 1..Len(audit_log) :
              Content(audit_log'[i]) = Content(audit_log[i])]_vars

\* The admin refused to delete a row of a log of two rows.
C16_Witness ==
    /\ response.op = "admin_delete"
    /\ response.status = 403
    /\ Len(audit_log) = 2


\* C17: deleting a user who is the actor of audit entries succeeds and leaves
\* every one of these entries in the table with a null actor and every other
\* field as it was; the entries of other actors are untouched and no entry
\* is deleted.
C17_DeleteUserNullifiesActor ==
    [][response'.op = "user_delete" =>
           /\ response'.pk \in DOMAIN users
           /\ response'.pk \notin DOMAIN users'
           /\ Len(audit_log') = Len(audit_log)
           /\ \A i \in 1..Len(audit_log) :
                  audit_log'[i] =
                      IF audit_log[i].user = response'.pk
                      THEN [audit_log[i] EXCEPT !.user = NoUser]
                      ELSE audit_log[i]]_vars

\* Every entry was written with an actor; after the deletion of one actor
\* the first entry has none and the second still has the other actor.
C17_Witness ==
    /\ response.op = "user_delete"
    /\ Len(audit_log) = 2
    /\ audit_log[1].user = NoUser
    /\ audit_log[2].user \in DOMAIN users
    /\ audit_log[2].user # response.pk


\* Every user's role reference is null or the pk of an existing Role.
RoleReferencesValid ==
    \A u \in DOMAIN users :
        users[u].role_id \in {NoRole} \cup DOMAIN role_permissions

\* C18: deleting a Role that is assigned to at least one user is rejected and
\* leaves the role, its permission set and every user's role assignment as
\* they were; in every reachable state each user's role reference is null or
\* points to an existing Role.
C18_RoleProtected ==
    /\ []RoleReferencesValid
    /\ [][(/\ response'.op = "role_delete"
           /\ \E u \in DOMAIN users : users[u].role_id = response'.role_id) =>
              /\ response'.raised = "ProtectedError"
              /\ UNCHANGED <<role_permissions, role_names, users>>]_vars

\* The deletion of a role with permissions was refused while a user holds
\* it, after another role had been deleted.
C18_Witness ==
    /\ response.op = "role_delete"
    /\ response.raised = "ProtectedError"
    /\ response.role_id \in DOMAIN role_permissions
    /\ role_permissions[response.role_id] # {}
    /\ \E u \in DOMAIN users : users[u].role_id = response.role_id
    /\ Cardinality(DOMAIN role_permissions) < sequences.role


\* C19: right after a run of the seed command, a run without --clear creates
\* no row and leaves the Permission rows, the Role rows and every role's
\* permission set as they are; no two Roles share a name (Permission rows are
\* keyed by their unique code).
C19_SeedIdempotent ==
    /\ \A r1, r2 \in DOMAIN role_names :
           role_names[r1] = role_names[r2] => r1 = r2
    /\ DOMAIN descriptions = permissions
    /\ (response.op = "seed" /\ response.raised = "none") =>
           LET again == handle(Tables, FALSE)
           IN  /\ again.created_perms = 0
               /\ again.created_roles = 0
               /\ again.permissions = permissions
               /\ again.descriptions = descriptions
               /\ again.role_permissions = role_permissions
               /\ again.role_names = role_names
               /\ again.sequences = sequences

\* A run that created nothing: the catalog was there from an earlier run,
\* beside a Permission and a Role made in the backoffice.
C19_Witness ==
    /\ response.op = "seed"
    /\ ~response.clear
    /\ response.raised = "none"
    /\ response.created_perms = 0
    /\ response.created_roles = 0
    /\ Cardinality(permissions) = Len(PERMISSIONS) + 1
    /\ Cardinality(DOMAIN role_names) = Len(ROLES) + 1


\* The permission each user-administration endpoint requires.
RequiredCode(endpoint) ==
    CASE endpoint = "create" -> "usuarios.create"
      [] endpoint = "edit" -> "usuarios.edit"
      [] endpoint = "deactivate" -> "usuarios.delete"
      [] endpoint = "reset-password" -> "usuarios.edit"

\* The gate of the endpoint denies the bearer of the token of pk.
GateDenies(pk, endpoint) ==
    \/ pk \notin DOMAIN users
    \/ StoreStatus(pk, RequiredCode(endpoint)) # 200

\* C20: when the permission gate denies a request to a user-administration
\* endpoint (create, edit, deactivate, reset-password) the handler does not
\* run: the request ends in 401 or 403, no user row is created or modified,
\* no token_version is incremented and no password changes.
C20_DeniedRequestChangesNothing ==
    [][(response'.op = "user_admin" /\ GateDenies(response'.pk, response'.endpoint)) =>
           /\ response'.status \in {401, 403}
           /\ UNCHANGED <<users, sequences>>]_vars

\* An active user whose role grants usuarios.edit and not usuarios.delete was
\* refused the deactivation of an active account.
C20_Witness ==
    /\ response.op = "user_admin"
    /\ response.endpoint = "deactivate"
    /\ response.status = 403
    /\ response.pk \in DOMAIN users
    /\ users[response.pk].is_active
    /\ users[response.pk].role_id # NoRole
    /\ "usuarios.edit" \in role_permissions[users[response.pk].role_id]
    /\ response.target \in DOMAIN users
    /\ users[response.target].is_active
    /\ users[response.target].token_version = 0


(* ----------------------------- gated endpoints -------------------------- *)
\* permission_classes of the audit views: the gate alone.
AuditLogListView_permission_classes == <<HasPermission("auditoria.view")>>
AuditLogDetailView_permission_classes == <<HasPermission("auditoria.view")>>

\* get_permissions() of UserListCreateView for a GET
UserListCreateView_get_permissions == <<IsAuthenticated, HasPermission("usuarios.view")>>

\* permission_classes of the views whose handler answers a fixed body
GatedViews ==
    [ConciliacionRunView |->
         <<IsAuthenticated, HasPermission("conciliacion.run")>>,
     ConciliacionDetailView |->
         <<IsAuthenticated, HasPermission("conciliacion.view")>>,
     DashboardView |->
         <<IsAuthenticated, HasAnyPermission(<<"dashboard.view", "admin.full">>)>>,
     AdminPanelView |->
         <<IsAuthenticated, HasAllPermissions(<<"admin.read", "admin.write">>)>>]

\* A request as the client sees it: the view, whose token it bore, the status.
HttpResponse(view, pk, status, data) ==
    [op |-> "http", view |-> view, pk |-> pk, status |-> status, data |-> data]

\* APIView.dispatch of one of GatedViews: initial, then the handler.
APIView_dispatch(pk, view) ==
    /\ response = Idle
    /\ LET denied == initial(pk, GatedViews[view])
       IN response' = HttpResponse(view, pk,
                                   IF denied # 0 THEN denied ELSE 200, <<>>)
    /\ UNCHANGED <<authz_vars, history, session_vars, audit_vars>>

\* GET /api/users/: initial, then UserListCreateView.get (the pks stand for
\* the serialized rows).
UserListCreateView_dispatch_get(pk) ==
    /\ response = Idle
    /\ LET denied == initial(pk, UserListCreateView_get_permissions)
       IN response' = IF denied # 0
                      THEN HttpResponse("UserListCreateView", pk, denied, <<>>)
                      ELSE HttpResponse("UserListCreateView", pk, 200,
                               SelectSeq([i \in 1..MaxAccounts |-> i],
                                         LAMBDA u : u \in DOMAIN users))
    /\ UNCHANGED <<authz_vars, history, session_vars, audit_vars>>

\* GET /api/audit/logs/: initial, then AuditLogListView.get
AuditLogListView_dispatch(pk, query_params) ==
    /\ response = Idle
    /\ LET denied == initial(pk, AuditLogListView_permission_classes)
           r == AuditLogListView_get_Response(query_params)
       IN response' = IF denied # 0
                      THEN HttpResponse("AuditLogListView", pk, denied, <<>>)
                      ELSE HttpResponse("AuditLogListView", pk, r.status, r.data)
    /\ UNCHANGED <<authz_vars, history, session_vars, audit_vars>>

\* GET /api/audit/logs/{id}/: initial, then AuditLogDetailView.get
AuditLogDetailView_dispatch(pk, log_id) ==
    /\ response = Idle
    /\ LET denied == initial(pk, AuditLogDetailView_permission_classes)
           r == AuditLogDetailView_get_Response(log_id)
       IN response' = IF denied # 0
                      THEN HttpResponse("AuditLogDetailView", pk, denied, <<>>)
                      ELSE HttpResponse("AuditLogDetailView", pk, r.status, r.data)
    /\ UNCHANGED <<authz_vars, history, session_vars, audit_vars>>

\* The code the backoffice adds to the catalog and grants to or takes from
\* the first and the last role of the catalog.
ToggledCodes == {"auditoria.view"}
ToggledRoles == {ROLES[1].name, ROLES[Len(ROLES)].name}

\* Whose token a request bears: nobody's, a user's, or one of a user that is
\* gone.
Bearers == {NoToken, UnknownPk} \cup DOMAIN users

NextEndpoints ==
    \/ seed_authorization(FALSE)
    \/ \E code \in ToggledCodes : PermissionAdmin_add(code)
    \/ \E r \in DOMAIN role_permissions, c \in ToggledCodes \cap permissions :
           /\ role_names[r] \in ToggledRoles
           /\ \/ RoleAdmin_change(r, role_permissions[r] \cup {c})
              \/ RoleAdmin_change(r, role_permissions[r] \ {c})
    \/ \E r \in {NoRole} \cup DOMAIN role_permissions, a \in BOOLEAN :
           create_user(r, a)
    \/ \E pk \in DOMAIN users, r \in DOMAIN role_permissions : update_user(pk, r)
    \/ \E cid \in ExplicitCids :
           Call_log_action(NoUser, "user.created", "user", "None", cid, "ok")
    \/ \E pk \in Bearers, view \in DOMAIN GatedViews : APIView_dispatch(pk, view)
    \/ \E pk \in Bearers : UserListCreateView_dispatch_get(pk)
    \/ \E pk \in Bearers, cp \in {"absent", "uuid-101", "not-a-uuid"} :
           AuditLogListView_dispatch(pk, [correlation_id |-> cp,
                                          ordering |-> "absent"])
    \/ \E pk \in Bearers, log_id \in 1..MaxCalls :
           AuditLogDetailView_dispatch(pk, log_id)
    \/ Return

SpecEndpoints == Init /\ [][NextEndpoints]_vars


\* A bearer that is a valid principal: the token of an active user.
ValidPrincipal(pk) == pk \in DOMAIN users /\ users[pk].is_active

\* The role of user pk has the permission with this code.
RoleGrants(pk, code) ==
    /\ users[pk].role_id # NoRole
    /\ code \in role_permissions[users[pk].role_id]

\* What each gated endpoint documents as required: one code, one of several
\* (any) or all of several.
Requirement ==
    [AuditLogListView       |-> [any |-> FALSE, codes |-> {"auditoria.view"}],
     AuditLogDetailView     |-> [any |-> FALSE, codes |-> {"auditoria.view"}],
     UserListCreateView     |-> [any |-> FALSE, codes |-> {"usuarios.view"}],
     ConciliacionRunView    |-> [any |-> FALSE, codes |-> {"conciliacion.run"}],
     ConciliacionDetailView |-> [any |-> FALSE, codes |-> {"conciliacion.view"}],
     DashboardView          |-> [any |-> TRUE,
                                 codes |-> {"dashboard.view", "admin.full"}],
     AdminPanelView         |-> [any |-> FALSE,
                                 codes |-> {"admin.read", "admin.write"}]]

\* The role of user pk lacks what the endpoint requires.
LacksRequired(pk, view) ==
    IF Requirement[view].any
    THEN \A c \in Requirement[view].codes : ~RoleGrants(pk, c)
    ELSE \E c \in Requirement[view].codes : ~RoleGrants(pk, c)

\* C21: on every gated endpoint a request without a valid principal (no
\* token, the token of a user that is gone or inactive) is answered 401, and
\* a request of an active user whose role lacks the required permission, or
\* who has no role, is answered 403; the audit-log endpoints, whose only
\* permission class is the gate, included.
C21_Unauthorized401Forbidden403 ==
    [][response'.op = "http" =>
           /\ ~ValidPrincipal(response'.pk) => response'.status = 401
           /\ (ValidPrincipal(response'.pk) /\ LacksRequired(response'.pk, response'.view))
                  => response'.status = 403]_vars

\* The audit list answered 401 to a request without a token while the table
\* held a row and an active user held auditoria.view.
C21_Witness ==
    /\ response.op = "http"
    /\ response.view = "AuditLogListView"
    /\ response.pk = NoToken
    /\ response.status = 401
    /\ Len(audit_log) > 0
    /\ \E u \in DOMAIN users : users[u].is_active /\ RoleGrants(u, "auditoria.view")


(* -------------------------------- sessions ------------------------------ *)
\* RefreshToken.for_user(user).access_token: the token names the user by
\* user_id.  `issued` is not a claim of the token: it records the
\* token_version the row had when the token was issued.
for_user(pk) == [user_id |-> pk, issued |-> users[pk].token_version]

\* The passwords a client may type.
Passwords == {InitialPassword} \cup {TempPasswords[i] : i \in 1..Len(TempPasswords)}

\* POST /api/auth/login/: LoginSerializer.validate (the row by email, the
\* password, is_active), then a token pair for the user.
login_view(pk, password) ==
    /\ response = Idle
    /\ LET valid == /\ pk \in DOMAIN users
                    /\ users[pk].password = password
                    /\ users[pk].is_active
       IN /\ tokens' = IF valid THEN tokens \cup {for_user(pk)} ELSE tokens
          /\ response' = [op |-> "login", pk |-> pk,
                          status |-> IF valid THEN 200 ELSE 400]
    /\ UNCHANGED <<authz_vars, history, profiles, audit_vars, requests, completed,
                   deactivated>>

\* APIView.initial for a request that bears an issued token: authentication
\* reads user_id from the token and nothing else of it.
initial_with_token(token, classes) == initial(token.user_id, classes)

\* permission_classes of profile_view
profile_view_permission_classes == <<IsAuthenticated>>

\* GET /api/auth/profile/ with a token
profile_view_get(token) ==
    /\ response = Idle
    /\ LET denied == initial_with_token(token, profile_view_permission_classes)
       IN response' = [op |-> "profile", method |-> "GET", token |-> token,
                       status |-> IF denied # 0 THEN denied ELSE 200]
    /\ UNCHANGED <<authz_vars, history, audit_vars, session_vars>>

\* Slots for requests in progress.
Slots == 1..MaxCalls

\* The model instance a worker holds: the row as it was read.
Instance(pk) == [pk |-> pk, row |-> users[pk]]

\* Completed calls of deactivate_user and reset_password for a user, and the
\* calls in progress for the user.
CompletedOf(pk) == IF pk \in DOMAIN completed THEN completed[pk] ELSE 0
InProgress(pk) ==
    Cardinality({s \in DOMAIN requests :
                    requests[s].op # "profile_view" /\ requests[s].user.pk = pk})
MaxCompleted == MaxCalls + 1

\* The view of POST /api/users/{id}/deactivate/ or .../reset-password/ reads
\* the row with get_user_by_id; the deactivate view goes on only for an
\* active user.
get_user_by_id(slot, op, user_id) ==
    /\ response = Idle
    /\ slot \notin DOMAIN requests
    /\ user_id \in DOMAIN users
    /\ op = "deactivate_user" => users[user_id].is_active
    /\ users[user_id].token_version < MaxTokenVersion
    /\ CompletedOf(user_id) + InProgress(user_id) < MaxCompleted
    /\ requests' = [s \in DOMAIN requests \cup {slot} |->
                       IF s = slot THEN [op |-> op, user |-> Instance(user_id)]
                       ELSE requests[s]]
    /\ UNCHANGED <<authz_vars, response, history, profiles, audit_vars, tokens,
                   completed, deactivated>>

\* One more completed call for the user.
Completed(pk) ==
    [u \in DOMAIN completed \cup {pk} |->
        IF u = pk
        THEN CompletedOf(pk) + 1
        ELSE completed[u]]

\* Removing a slot from the requests in progress.
Done(slot) == [s \in DOMAIN requests \ {slot} |-> requests[s]]

\* deactivate_user(user=user): is_active and token_version are set on the
\* instance, from the values it was read with, and written with
\* save(update_fields=["is_active", "token_version", "updated_at"]).
deactivate_user(slot) ==
    /\ response = Idle
    /\ slot \in DOMAIN requests
    /\ requests[slot].op = "deactivate_user"
    /\ LET user == requests[slot].user
       IN /\ users' = [users EXCEPT
                          ![user.pk].is_active = FALSE,
                          ![user.pk].token_version = user.row.token_version + 1]
          /\ completed' = Completed(user.pk)
          /\ deactivated' = deactivated \cup {user.pk}
          /\ response' = [op |-> "service", name |-> "deactivate_user",
                          user_id |-> user.pk]
    /\ requests' = Done(slot)
    /\ UNCHANGED <<permissions, descriptions, role_permissions, role_names,
                   sequences, history, profiles, audit_vars, tokens>>

\* reset_password(user=user): a temporary password and token_version + 1 on
\* the instance, written with
\* save(update_fields=["password", "token_version", "updated_at"]).
reset_password(slot) ==
    /\ response = Idle
    /\ slot \in DOMAIN requests
    /\ requests[slot].op = "reset_password"
    /\ LET user == requests[slot].user
       IN /\ users' = [users EXCEPT
                          ![user.pk].password =
                              TempPasswords[user.row.token_version + 1],
                          ![user.pk].token_version = user.row.token_version + 1]
          /\ completed' = Completed(user.pk)
          /\ response' = [op |-> "service", name |-> "reset_password",
                          user_id |-> user.pk]
    /\ requests' = Done(slot)
    /\ UNCHANGED <<permissions, descriptions, role_permissions, role_names,
                   sequences, history, profiles, audit_vars, tokens, deactivated>>

\* UserAdmin "change" with the "active" box ticked: the backoffice
\* reactivates the account.
UserAdmin_change_is_active(pk) ==
    /\ response = Idle
    /\ pk \in DOMAIN users
    /\ ~users[pk].is_active
    /\ users' = [users EXCEPT ![pk].is_active = TRUE]
    /\ deactivated' = deactivated \ {pk}
    /\ UNCHANGED <<permissions, descriptions, role_permissions, role_names,
                   sequences, response, history, profiles, audit_vars, tokens, requests,
                   completed>>


\* email, first_name and last_name of a user the profile endpoint has not
\* written yet.
InitialProfile ==
    [email |-> "user@example.com", first_name |-> "Ana", last_name |-> "Paz"]

ProfileOf(pk) == IF pk \in DOMAIN profiles THEN profiles[pk] ELSE InitialProfile

\* The columns of a User row a request body may name, and what a client
\* sends for each.
BodyKeys ==
    {"email", "first_name", "last_name", "is_active", "role_id",
     "token_version", "password"}

BodyValues ==
    [email |-> "other@example.com", first_name |-> "Eva", last_name |-> "Gil",
     is_active |-> FALSE, role_id |-> UnknownPk,
     token_version |-> MaxTokenVersion, password |-> TempPasswords[1]]

\* The keys that name something other than first_name and last_name.
ProtectedKeys == BodyKeys \ {"first_name", "last_name"}

\* A request body: the keys it sends (each with its value of BodyValues) and
\* whether the values sent pass the fields' validation.  Any of the names,
\* with none, one or all of the other keys.
Bodies ==
    [sent : {names \cup others :
                names \in SUBSET {"first_name", "last_name"},
                others \in {{}, ProtectedKeys} \cup {{k} : k \in ProtectedKeys}},
     valid : BOOLEAN]

\* UserSerializer.Meta: fields and read_only_fields, for the columns modelled.
UserSerializer_fields == {"email", "first_name", "last_name", "is_active"}
UserSerializer_read_only_fields == {"is_active"}

\* request.user as the view holds it: the row read at authentication.
request_user(pk) ==
    [email |-> ProfileOf(pk).email, first_name |-> ProfileOf(pk).first_name,
     last_name |-> ProfileOf(pk).last_name, is_active |-> users[pk].is_active,
     role_id |-> users[pk].role_id, token_version |-> users[pk].token_version,
     password |-> users[pk].password]

\* data = request.data.copy(); data['email'] = user.email
request_data(body, user) ==
    [k \in body.sent \cup {"email"} |->
        IF k = "email" THEN user.email ELSE BodyValues[k]]

\* A serializer that takes every key of the data as a writable field.
to_internal_value_every_key(data) == data

\* Serializer.to_internal_value: the writable fields present in the data.
to_internal_value(data) ==
    [k \in DOMAIN data \cap (UserSerializer_fields \ UserSerializer_read_only_fields)
        |-> data[k]]

\* ModelSerializer.update: setattr for each validated field.
ModelSerializer_update(instance, validated_data) ==
    [k \in DOMAIN instance |->
        IF k \in DOMAIN validated_data THEN validated_data[k] ELSE instance[k]]

\* PUT or PATCH /api/auth/profile/ begins: authentication reads the row of
\* the token's user into request.user.
profile_view_authenticate(slot, token) ==
    /\ response = Idle
    /\ slot \notin DOMAIN requests
    /\ initial_with_token(token, profile_view_permission_classes) = 0
    /\ requests' = [s \in DOMAIN requests \cup {slot} |->
                       IF s = slot
                       THEN [op |-> "profile_view", token |-> token,
                             user |-> [pk |-> token.user_id,
                                       row |-> request_user(token.user_id)]]
                       ELSE requests[s]]
    /\ UNCHANGED <<authz_vars, response, history, profiles, audit_vars, tokens,
                   completed, deactivated>>

\* ... and ends.  An invalid body is answered 400 and nothing is saved.
\* Otherwise serializer.save() is ModelSerializer.update, which sets the
\* validated fields on request.user and calls instance.save() without
\* update_fields, so every column is written from the instance.
profile_view_put(slot, method, body) ==
    /\ response = Idle
    /\ slot \in DOMAIN requests
    /\ requests[slot].op = "profile_view"
    /\ LET user == requests[slot].user
           data == request_data(body, user.row)
           saved == ModelSerializer_update(user.row, to_internal_value(data))
       IN /\ IF body.valid
             THEN /\ users' = [users EXCEPT ![user.pk] =
                                  [is_active |-> saved.is_active,
                                   role_id |-> saved.role_id,
                                   token_version |-> saved.token_version,
                                   password |-> saved.password]]
                  /\ profiles' = [u \in DOMAIN profiles \cup {user.pk} |->
                                     IF u = user.pk
                                     THEN [email |-> saved.email,
                                           first_name |-> saved.first_name,
                                           last_name |-> saved.last_name]
                                     ELSE profiles[u]]
             ELSE UNCHANGED <<users, profiles>>
          /\ response' = [op |-> "profile", method |-> method,
                          token |-> requests[slot].token,
                          status |-> IF body.valid THEN 200 ELSE 400,
                          body |-> body, user |-> user.row]
    /\ requests' = Done(slot)
    /\ UNCHANGED <<permissions, descriptions, role_permissions, role_names,
                   sequences, history, audit_vars, tokens, completed,
                   deactivated>>

\* The body of the documented example: {"first_name": ..., "last_name": ...}
ExampleBody == [sent |-> {"first_name", "last_name"}, valid |-> TRUE]

NextSessions ==
    \/ create_user(NoRole, TRUE)
    \/ \E pk \in DOMAIN users, password \in Passwords : login_view(pk, password)
    \/ \E token \in tokens : profile_view_get(token)
    \/ \E slot \in Slots, token \in tokens : profile_view_authenticate(slot, token)
    \/ \E slot \in Slots : profile_view_put(slot, "PUT", ExampleBody)
    \/ \E slot \in Slots, user_id \in DOMAIN users,
          op \in {"deactivate_user", "reset_password"} :
           get_user_by_id(slot, op, user_id)
    \/ \E slot \in Slots : deactivate_user(slot)
    \/ \E slot \in Slots : reset_password(slot)
    \/ \E pk \in DOMAIN users : UserAdmin_change_is_active(pk)
    \/ Return

SpecSessions == Init /\ [][NextSessions]_vars


\* C22: once reset_password has completed for a user, a request that bears
\* an access token issued to that user before the reset (the row's
\* token_version is above the one the token was issued at) is rejected with
\* 401.
C22_ResetInvalidatesTokens ==
    (/\ response # Idle
     /\ response.op = "profile"
     /\ response.token.user_id \in DOMAIN users
     /\ response.token.issued < users[response.token.user_id].token_version)
        => response.status = 401


\* C23: from the completion of deactivate_user for a user until the user is
\* reactivated, a request that bears a token of that user fails
\* authentication (401) and user_has_permission is False for the user and
\* every code.
C23_DeactivatedIsRejected ==
    /\ (/\ response # Idle
        /\ response.op = "profile"
        /\ response.method = "GET"
        /\ response.token.user_id \in deactivated)
           => response.status = 401
    /\ \A pk \in deactivated, code \in permissions \cup CheckCodes :
           ~user_has_permission(LoadUser(pk, TRUE), code)


\* C27: each completed call of deactivate_user or reset_password raises the
\* user's stored token_version by exactly one: with no request of the user
\* still in progress, the stored value is the original (0) plus the number
\* of completed calls, in any interleaving.
C27_TokenVersionCountsCalls ==
    \A pk \in DOMAIN users :
        (\A s \in DOMAIN requests : requests[s].user.pk # pk)
            => users[pk].token_version = CompletedOf(pk)


(* --------------------------- the seeded system --------------------------- *)
\* The store holds the catalog of seed_authorization and nothing else.
Seeded ==
    /\ permissions = {PERMISSIONS[i].code : i \in 1..Len(PERMISSIONS)}
    /\ Cardinality(DOMAIN role_names) = Len(ROLES)
    /\ \A i \in 1..Len(ROLES) :
           \E r \in DOMAIN role_names :
               /\ role_names[r] = ROLES[i].name
               /\ role_permissions[r] = ROLES[i].permissions

\* C24: on a system initialised by seed_authorization the role Administrador
\* holds auditoria.view and an active user of that role is let through to
\* the audit-log list and detail; an active user of another seeded role is
\* answered 403 there.
C24_AdministradorReadsAuditLogs ==
    (/\ response.op = "http"
     /\ response.view \in {"AuditLogListView", "AuditLogDetailView"}
     /\ Seeded
     /\ ValidPrincipal(response.pk)
     /\ users[response.pk].role_id # NoRole)
        => IF role_names[users[response.pk].role_id] = "Administrador"
           THEN /\ RoleGrants(response.pk, "auditoria.view")
                /\ response.status \notin {401, 403}
           ELSE response.status = 403


\* C25: every gate built by HasPermission, HasAnyPermission or
\* HasAllPermissions, with any tuple of codes the factory accepts (the empty
\* one included), denies a request whose user is anonymous, inactive or
\* without a role.
C25_GatesFailClosed ==
    (/\ response.op = "gate"
     /\ \/ response.user.kind # "User"
        \/ ~response.user.is_authenticated
        \/ ~response.user.is_active
        \/ response.user.role_id = NoRole)
        => response.result = FALSE


\* C26: seed_authorization --clear completes from any state, one where users
\* are assigned roles included, and leaves exactly the catalog in the store.
C26_ClearRecreatesCatalog ==
    (response.op = "seed" /\ response.clear) =>
        /\ response.raised = "none"
        /\ Seeded


(* ------------------------- PATCH /api/users/{id}/ ------------------------ *)
\* A request body: the keys it sends and, for role_id, a pk or JSON null
\* (NoRole).
PatchBodies ==
    [sent : SUBSET {"role_id"},
     role_id : {NoRole, UnknownPk} \cup DOMAIN role_permissions]

\* AdminUpdateUserSerializer: role_id is IntegerField(required=False,
\* allow_null=True); data.get('role_id') is None for a body without the key
\* and for an explicit null.
validated_data_get_role_id(body) ==
    IF "role_id" \in body.sent THEN body.role_id ELSE NoRole

\* UserDetailUpdateView.patch with the body as the client sent it.
UserDetailUpdateView_patch_body(pk, user_id, body) ==
    /\ response = Idle
    /\ LET role_id == validated_data_get_role_id(body)
           denied == initial(pk, UserDetailUpdateView_patch_permissions)
           status == IF denied # 0 THEN denied
                     ELSE IF user_id \notin DOMAIN users THEN 404
                     ELSE IF role_id \notin {NoRole} \cup DOMAIN role_permissions
                     THEN 500 ELSE 200
       IN /\ response' = [op |-> "patch", pk |-> pk, target |-> user_id,
                          body |-> body, status |-> status]
          /\ users' = IF status = 200 /\ role_id # NoRole
                      THEN [users EXCEPT ![user_id].role_id = role_id]
                      ELSE users
    /\ UNCHANGED <<permissions, descriptions, role_permissions, role_names,
                   sequences, history, session_vars, audit_vars>>

NextPatch ==
    \/ seed_authorization(FALSE)
    \/ \E r \in {NoRole} \cup DOMAIN role_permissions : create_user(r, TRUE)
    \/ \E pk \in {NoToken} \cup DOMAIN users,
          user_id \in DOMAIN users \cup {UnknownPk}, body \in PatchBodies :
           UserDetailUpdateView_patch_body(pk, user_id, body)
    \/ Return

SpecPatch == Init /\ [][NextPatch]_vars

\* C28: a PATCH /api/users/{id}/ that is answered 200 and sent role_id
\* explicitly as null leaves the user with no role, and every permission
\* check for that user is then denied.
C28_PatchNullRoleClearsRole ==
    (/\ response.op = "patch"
     /\ response.status = 200
     /\ "role_id" \in response.body.sent
     /\ response.body.role_id = NoRole)
        => /\ users[response.target].role_id = NoRole
           /\ \A code \in permissions :
                  ~user_has_permission(LoadUser(response.target, TRUE), code)


(* ------------------------------ registration ----------------------------- *)
\* The name RegisterSerializer.create looks the default role up by.
DefaultRoleName == "Operador"

\* The permissions the default role is documented to carry.
ViewCodes == {"conciliacion.view", "reportes.view", "dashboard.view"}

\* RoleAdmin "add" with the name typed in the form (Role.name is unique).
RoleAdmin_add_named(name, perms) ==
    /\ response = Idle
    /\ sequences.role < MaxRolePk
    /\ \A r \in DOMAIN role_names : role_names[r] # name
    /\ LET pk == sequences.role + 1
       IN /\ role_permissions' =
                 [r \in DOMAIN role_permissions \cup {pk} |->
                     IF r = pk THEN perms ELSE role_permissions[r]]
          /\ role_names' =
                 [r \in DOMAIN role_names \cup {pk} |->
                     IF r = pk THEN name ELSE role_names[r]]
          /\ sequences' = [sequences EXCEPT !.role = pk]
    /\ UNCHANGED <<response, history, session_vars, audit_vars>>
    /\ UNCHANGED <<permissions, descriptions, users>>

\* Role.objects.get(name='Operador').pk, or ObjectDoesNotExist (NoRole)
get_role_by_name(name) ==
    LET found == {r \in DOMAIN role_names : role_names[r] = name}
    IN  IF found = {} THEN NoRole ELSE CHOOSE r \in found : TRUE

\* POST /api/auth/register/ with valid data: RegisterSerializer.create
RegisterSerializer_create ==
    /\ response = Idle
    /\ sequences.user < MaxUsers
    /\ LET pk == sequences.user + 1
           row == [is_active |-> TRUE,
                   role_id |-> get_role_by_name(DefaultRoleName),
                   token_version |-> 0, password |-> InitialPassword]
       IN /\ users' = [u \in DOMAIN users \cup {pk} |->
                          IF u = pk THEN row ELSE users[u]]
          /\ sequences' = [sequences EXCEPT !.user = pk]
          /\ response' = [op |-> "register", pk |-> pk, status |-> 201]
    /\ UNCHANGED <<permissions, descriptions, role_permissions, role_names,
                   history, session_vars, audit_vars>>

NextRegister ==
    \/ seed_authorization(FALSE)
    \/ \E perms \in SUBSET (permissions \cap ViewCodes) :
           RoleAdmin_add_named(DefaultRoleName, perms)
    \/ \E r \in DOMAIN role_permissions,
          perms \in SUBSET (permissions \cap ViewCodes) :
           /\ role_names[r] = DefaultRoleName
           /\ RoleAdmin_change(r, perms)
    \/ RegisterSerializer_create
    \/ Return

SpecRegister == Init /\ [][NextRegister]_vars

\* C29: on a system initialised by seed_authorization, a user created by
\* public registration has the role Operador and holds exactly
\* conciliacion.view, reportes.view and dashboard.view; when no role is
\* named Operador the user is created with no role.
C29_RegistrationDefaultRole ==
    response.op = "register" =>
        LET role_id == users[response.pk].role_id
        IN  /\ Seeded =>
                  /\ role_id # NoRole
                  /\ role_names[role_id] = DefaultRoleName
                  /\ role_permissions[role_id] = ViewCodes
            /\ (\A r \in DOMAIN role_names : role_names[r] # DefaultRoleName)
                  => role_id = NoRole


(* ------------------------------ own profile ------------------------------ *)
\* One profile update in progress at a time, next to the administrators'
\* requests.
ProfileSlots == {Len(<<"profile_view">>)}

NextProfile ==
    \/ create_user(NoRole, TRUE)
    \/ \E pk \in DOMAIN users : login_view(pk, InitialPassword)
    \/ \E slot \in ProfileSlots, token \in tokens :
           profile_view_authenticate(slot, token)
    \/ \E slot \in ProfileSlots, method \in {"PUT", "PATCH"}, body \in Bodies :
           profile_view_put(slot, method, body)
    \/ \E slot \in Slots \ ProfileSlots, user_id \in DOMAIN users :
           get_user_by_id(slot, "deactivate_user", user_id)
    \/ \E slot \in Slots : deactivate_user(slot)
    \/ Return

SpecProfile == Init /\ [][NextProfile]_vars

=============================================================================
